---- MODULE Spec2Model ----
(***************************************************************************)
(* Consensus & Verification Engine of the multi-agent oracle:              *)
(*   oracle/models.py, oracle/consensus/engine.py,                         *)
(*   oracle/consensus/strict_engine.py, oracle/storage/canonical.py.       *)
(*                                                                         *)
(* The engine's entry points are pure functions of an in-memory batch of   *)
(* AgentResults; the state machine below is a caller that assembles a      *)
(* batch (AddResult), may reorder it (Reorder), and calls the entry points *)
(* (Calculate, MergeSources, CalculateStrict, ...), whose return values    *)
(* are kept in variables.                                                  *)
(***************************************************************************)
EXTENDS Integers, Sequences, FiniteSets, TLC

VARIABLES
    config,       \* the engine's (Strict)ConsensusConfig
    results,      \* the caller's batch: list[AgentResult]
    clock,        \* datetime.utcnow(), in ticks: a later tick at every reading
    last,         \* the last step taken by the caller
    consensus,    \* ConsensusResult returned by the last calculate / calculate_strict
    before,       \* the value returned for the input before the caller reordered it
    merged,       \* list[ResearchSource] returned by the last merge_sources
    verification, \* VerificationResult of the last calculate_strict
    provable,     \* ProvableConsensusData returned by the last calculate_strict
    document,     \* a JSON-serializable value handed to the canonical codec
    canonical,    \* to_canonical_json(document)
    digest,       \* calculate_sha256(canonical)
    hash_seed,    \* the interpreter's string-hash seed, fixed when the process starts
    builder,      \* the fields of an OracleResearchDataBuilder
    calls,        \* the number of calls that have changed the builder
    pairwise_overlap, \* what the last _calculate_source_overlap returned
    heap,         \* the objects and lists in memory during the last tracked call
    attempt,      \* the rounds of agents that resolve has run
    max_retries   \* MAX_AGENT_RETRIES, as resolve reads it from the environment

vars == <<config, results, clock, last, consensus, before, merged,
          verification, provable, document, canonical, digest, hash_seed,
          builder, calls, pairwise_overlap, heap, attempt, max_retries>>

(***************************************************************************)
(* Bounds of the model.                                                    *)
(***************************************************************************)
MaxAgents == 3      \* longest batch handed to calculate / calculate_strict
MaxCiters == 3      \* longest batch handed to merge_sources on its own
FloatDigits == 3    \* significant decimal digits kept by a float operation
MaxClock == 1       \* readings of the clock: each call of calculate_strict reads a later time
MaxCalls == 3       \* calls that change a research data builder
MaxRetries == 3     \* largest MAX_AGENT_RETRIES that resolve is run with

(***************************************************************************)
(* Python floats.  A float is <<m, e>>, the number m * 10^e, normalised:   *)
(* zero is <<0, 0>>, otherwise 10^(FloatDigits-1) <= m < 10^FloatDigits.   *)
(* Every operation computes the exact result and rounds it to nearest,     *)
(* ties to even, as IEEE-754 arithmetic does (binary64 keeps 53 bits; the  *)
(* model keeps FloatDigits decimal digits).  Equal numbers have equal      *)
(* representations, so = on floats is Python's ==.                         *)
(***************************************************************************)
Pow10(k) == 10 ^ k

\* the number of decimal digits of n > 0
NumDigits(n) == CHOOSE d \in 1..10 : n < Pow10(d) /\ (d = 1 \/ n >= Pow10(d - 1))

FZero == <<0, 0>>

\* round to nearest, ties to even: is the quotient q, left with the remainder
\* r of a division by p, rounded up?  (sticky: a non-zero part of the exact
\* value lies below r)
RoundsUp(q, r, p, sticky) == 2 * r > p \/ (2 * r = p /\ (sticky \/ q % 2 = 1))

\* q * 10^e, renormalised when rounding up carried into a new digit
FCarry(q, e) ==
    IF q = Pow10(FloatDigits) THEN <<Pow10(FloatDigits - 1), e + 1>> ELSE <<q, e>>

\* m * 10^e for m > 0 with FloatDigits + k digits
FRoundTo(m, e, sticky, k) ==
    IF k <= 0 THEN <<m * Pow10(0 - k), e + k>>
    ELSE FCarry((m \div Pow10(k))
                + (IF RoundsUp(m \div Pow10(k), m % Pow10(k), Pow10(k), sticky) THEN 1 ELSE 0),
                e + k)

\* round m * 10^e (sticky: a non-zero remainder lies below the last digit of m)
FRound(m, e, sticky) ==
    IF m = 0 THEN FZero ELSE FRoundTo(m, e, sticky, NumDigits(m) - FloatDigits)

\* float(n) of an int, and the float literal n / 10^k (0.67 is Dec(67, 2))
FromInt(n) == FRound(n, 0, FALSE)
Dec(n, k) == FRound(n, 0 - k, FALSE)

FLess(a, b) ==
    IF a[1] = 0 THEN b[1] > 0
    ELSE IF b[1] = 0 THEN FALSE
    ELSE a[2] < b[2] \/ (a[2] = b[2] /\ a[1] < b[1])

FLeq(a, b) == a = b \/ FLess(a, b)
FGeq(a, b) == FLeq(b, a)
FMin(a, b) == IF FLess(b, a) THEN b ELSE a
FMax(a, b) == IF FLess(a, b) THEN b ELSE a

FAdd(a, b) ==
    IF a[1] = 0 THEN b
    ELSE IF b[1] = 0 THEN a
    ELSE LET hi == IF a[2] >= b[2] THEN a ELSE b
             lo == IF a[2] >= b[2] THEN b ELSE a
             d  == hi[2] - lo[2]
         IN  IF d > FloatDigits + 1
             THEN hi      \* lo is below half a unit in the last place of hi
             ELSE FRound(hi[1] * Pow10(d) + lo[1], lo[2], FALSE)

\* a - b for a >= b (the engine subtracts a minimum from a maximum only)
FSub(a, b) ==
    IF b[1] = 0 THEN a
    ELSE LET d == a[2] - b[2]
         IN  FRound(a[1] * Pow10(d) - b[1], b[2], FALSE)

FMul(a, b) == FRound(a[1] * b[1], a[2] + b[2], FALSE)

\* a / b for b # 0
FDiv(a, b) ==
    IF a[1] = 0 THEN FZero
    ELSE LET num == a[1] * Pow10(FloatDigits + 1)
         IN  FRound(num \div b[1], a[2] - b[2] - (FloatDigits + 1), num % b[1] # 0)

\* sum(xs) of a list of floats: Python adds left to right, starting from 0.
\* The additions are made in that order; the recursion splits the range in
\* two only to keep the evaluation stack shallow.
RECURSIVE FSumRange(_, _, _, _)
FSumRange(xs, lo, hi, acc) ==
    IF lo > hi THEN acc
    ELSE IF lo = hi THEN FAdd(acc, xs[lo])
    ELSE LET mid == (lo + hi) \div 2
             left == FSumRange(xs, lo, mid, acc)
         IN  IF left[1] >= 0 THEN FSumRange(xs, mid + 1, hi, left) ELSE FZero

FSum(xs) == FSumRange(xs, 1, Len(xs), FZero)

(***************************************************************************)
(* oracle/models.py                                                        *)
(***************************************************************************)
YES == "YES"
NO == "NO"
UNDETERMINED == "UNDETERMINED"
INVALID == "INVALID"
Outcome == {YES, NO, UNDETERMINED, INVALID}

OFFICIAL == "official"
NEWS == "news"
SOCIAL == "social"
DOMAIN_SPECIFIC == "domain_specific"
FACT_CHECK == "fact_check"
SourceCategory == {OFFICIAL, NEWS, SOCIAL, DOMAIN_SPECIFIC, FACT_CHECK}

\* Optional[str]: None is the empty list of pieces, a string is the list of the
\* pieces an f-string puts together
None == <<>>

ResearchSource(url, category, relevance_score, credibility_score, cited_by) ==
    [url |-> url, category |-> category, relevance_score |-> relevance_score,
     credibility_score |-> credibility_score, cited_by |-> cited_by]

AgentResult(agent_id, outcome, confidence, sources, error) ==
    [agent_id |-> agent_id, outcome |-> outcome, confidence |-> confidence,
     sources |-> sources, error |-> error]

\* the number of sources AgentResult.is_valid asks for
MinValidSources == 50

\* is_valid without the error test
is_valid_loose(r) ==
    /\ Len(r.sources) >= MinValidSources
    /\ r.outcome # INVALID

is_valid(r) ==
    /\ Len(r.sources) >= MinValidSources
    /\ r.error = None
    /\ r.outcome # INVALID

ConsensusResult(reached, outcome, confidence, agreement_ratio, weighted_ratio, total_sources, unique_sources, source_overlap, agent_count, requires_human_review, reason) ==
    [reached |-> reached, outcome |-> outcome, confidence |-> confidence,
     agreement_ratio |-> agreement_ratio, weighted_ratio |-> weighted_ratio,
     total_sources |-> total_sources, unique_sources |-> unique_sources,
     source_overlap |-> source_overlap, agent_count |-> agent_count,
     requires_human_review |-> requires_human_review, reason |-> reason]

(***************************************************************************)
(* Formatting used in the reason strings.                                  *)
(***************************************************************************)
\* round-half-even of the float x * 10^k to an int (x >= 0)
FScaledInt(x, k) ==
    LET s == x[2] + k IN
    IF x[1] = 0 THEN 0
    ELSE IF s >= 0 THEN x[1] * Pow10(s)
    ELSE IF 0 - s > FloatDigits THEN 0
    ELSE LET p == Pow10(0 - s)
             q == x[1] \div p
             r == x[1] % p
         IN  IF 2 * r > p \/ (2 * r = p /\ q % 2 = 1) THEN q + 1 ELSE q

\* f"{x:.1%}"
FormatPercent1(x) ==
    LET t == FScaledInt(x, 3)
    IN  ToString(t \div 10) \o "." \o ToString(t % 10) \o "%"

(***************************************************************************)
(* oracle/consensus/engine.py                                              *)
(***************************************************************************)
ConsensusConfig(min_agents, threshold, use_weighted_voting, min_sources_per_agent) ==
    [min_agents |-> min_agents, threshold |-> threshold,
     use_weighted_voting |-> use_weighted_voting,
     min_sources_per_agent |-> min_sources_per_agent]

\* the float literals 1.0 and 0.2, and float(25)
FOne == FromInt(1)
MaxDiversityBonus == Dec(2, 1)
DiversityScale == FromInt(25)

_calculate_source_quality(sources) ==
    IF Len(sources) = 0 THEN FZero
    ELSE LET creds == [i \in 1..Len(sources) |-> sources[i].credibility_score]
             avg_credibility == FDiv(FSum(creds), FromInt(Len(sources)))
             categories == {sources[i].category : i \in 1..Len(sources)}
             diversity_bonus == FMin(FDiv(FromInt(Cardinality(categories)), DiversityScale),
                                     MaxDiversityBonus)
         IN  FMin(FAdd(avg_credibility, diversity_bonus), FOne)

_calculate_vote_weight(cfg, result) ==
    LET confidence == result.confidence
        source_quality == _calculate_source_quality(result.sources)
        source_count_factor ==
            FMin(FDiv(FromInt(Len(result.sources)), FromInt(cfg.min_sources_per_agent)),
                 FOne)
    IN  FMul(FMul(confidence, source_quality), source_count_factor)

\* all_sources: every (source, agent_id) pair, agent by agent
RECURSIVE CollectSources(_, _)
CollectSources(rs, i) ==
    IF i > Len(rs) THEN <<>>
    ELSE [k \in 1..Len(rs[i].sources) |-> <<rs[i].sources[k], rs[i].agent_id>>]
         \o CollectSources(rs, i + 1)

\* the sort key of an all_sources entry (source, agent_id)
SourceQualityKey(x) == FMul(x[1].relevance_score, x[1].credibility_score)

\* list.sort(key=..., reverse=True) over entries <<source, agent_id, key>>:
\* stable, highest key first
RECURSIVE SortByKeys(_, _)
SortByKeys(keyed, keys) ==
    IF keys = {} THEN <<>>
    ELSE LET top == CHOOSE k \in keys : \A j \in keys : FLeq(j, k)
         IN  SelectSeq(keyed, LAMBDA x : x[3] = top) \o SortByKeys(keyed, keys \ {top})

SortByQuality(xs) ==
    LET keyed == SelectSeq([i \in 1..Len(xs) |-> <<xs[i][1], xs[i][2], SourceQualityKey(xs[i])>>],
                           LAMBDA x : TRUE)
    IN  SortByKeys(keyed, {keyed[i][3] : i \in 1..Len(keyed)})

\* the append without the "not in existing.cited_by" test
AppendCitationUnchecked(cited_by, agent_id) == Append(cited_by, agent_id)

\* if agent_id not in existing.cited_by: existing.cited_by.append(agent_id)
AppendCitation(cited_by, agent_id) ==
    IF \E i \in 1..Len(cited_by) : cited_by[i] = agent_id
    THEN cited_by
    ELSE Append(cited_by, agent_id)

\* one iteration of the deduplication loop of _merge_sources
DeduplicateStep(st, entry) ==
    LET source == entry[1]
        agent_id == entry[2]
    IN  IF source.url \notin st.seen_urls
        THEN [seen_urls |-> st.seen_urls \cup {source.url},
              merged |-> Append(st.merged, [source EXCEPT !.cited_by = <<agent_id>>])]
        ELSE LET j == CHOOSE j \in 1..Len(st.merged) : st.merged[j].url = source.url
             IN  [seen_urls |-> st.seen_urls,
                  merged |-> [st.merged EXCEPT ![j].cited_by =
                                 AppendCitation(st.merged[j].cited_by, agent_id)]]

\* the loop over all_sources[lo..hi], in order (split in two only to keep the
\* evaluation stack shallow)
RECURSIVE Deduplicate(_, _, _, _)
Deduplicate(all_sources, lo, hi, st) ==
    IF lo > hi THEN st
    ELSE IF lo = hi THEN DeduplicateStep(st, all_sources[lo])
    ELSE LET mid == (lo + hi) \div 2
             left == Deduplicate(all_sources, lo, mid, st)
         IN  IF Len(left.merged) >= 0
             THEN Deduplicate(all_sources, mid + 1, hi, left)
             ELSE st

_merge_sources(rs) ==
    LET all_sources == SortByQuality(CollectSources(rs, 1))
    IN  Deduplicate(all_sources, 1, Len(all_sources),
                    [seen_urls |-> {}, merged |-> <<>>]).merged

(***************************************************************************)
(* _merge_sources once more, with the ResearchSource objects and their     *)
(* cited_by lists kept apart: fields[o] is the list that the cited_by      *)
(* attribute of object o refers to, lists[l] the content of list l.  The   *)
(* sources of the batch are the objects 1..N, agent by agent.              *)
(***************************************************************************)
\* the sources of the batch as objects in memory, before the call
InMemory(rs) ==
    LET all == CollectSources(rs, 1)
    IN  [fields |-> [k \in 1..Len(all) |-> k],
         lists |-> [k \in 1..Len(all) |-> all[k][1].cited_by],
         merged |-> <<>>]

\* all_sources, each source knowing which object it is
SourceObjects(rs) ==
    LET all == CollectSources(rs, 1)
    IN  [k \in 1..Len(all) |->
            <<[url |-> all[k][1].url, relevance_score |-> all[k][1].relevance_score,
               credibility_score |-> all[k][1].credibility_score, obj |-> k],
              all[k][2]>>]

\* new_source = source: no copy is made
no_copy(memory, obj) == [memory |-> memory, obj |-> obj]

\* source.model_copy(): a new object whose attributes refer to the values of
\* the original (a shallow copy)
model_copy(memory, obj) ==
    [memory |-> [memory EXCEPT !.fields = Append(@, memory.fields[obj])],
     obj |-> Len(memory.fields) + 1]

\* new_source.cited_by = [agent_id]; merged.append(new_source)
AssignCitedBy(copied, url, agent_id) ==
    [fields |-> [copied.memory.fields EXCEPT ![copied.obj] = Len(copied.memory.lists) + 1],
     lists |-> Append(copied.memory.lists, <<agent_id>>),
     merged |-> Append(copied.memory.merged, [obj |-> copied.obj, url |-> url])]

\* existing.cited_by.append(agent_id), unless it is there
AppendInPlace(memory, url, agent_id) ==
    LET j == CHOOSE j \in 1..Len(memory.merged) : memory.merged[j].url = url
        l == memory.fields[memory.merged[j].obj]
    IN  [memory EXCEPT !.lists[l] = AppendCitation(@, agent_id)]

\* one iteration of the deduplication loop, on the objects
DeduplicateStepInMemory(st, entry) ==
    IF entry[1].url \notin st.seen_urls
    THEN [seen_urls |-> st.seen_urls \cup {entry[1].url},
          memory |-> AssignCitedBy(model_copy(st.memory, entry[1].obj), entry[1].url,
                                   entry[2])]
    ELSE [seen_urls |-> st.seen_urls,
          memory |-> AppendInPlace(st.memory, entry[1].url, entry[2])]

RECURSIVE DeduplicateInMemory(_, _, _, _)
DeduplicateInMemory(all_sources, lo, hi, st) ==
    IF lo > hi THEN st
    ELSE IF lo = hi THEN DeduplicateStepInMemory(st, all_sources[lo])
    ELSE LET mid == (lo + hi) \div 2
             left == DeduplicateInMemory(all_sources, lo, mid, st)
         IN  IF Len(left.memory.fields) >= 0
             THEN DeduplicateInMemory(all_sources, mid + 1, hi, left)
             ELSE st

\* memory after _merge_sources([r for r in rs if r.agent_id in agent_ids])
_merge_sources_in_memory(rs, agent_ids) ==
    LET all_sources == SortByQuality(SelectSeq(SourceObjects(rs),
                                               LAMBDA x : x[2] \in agent_ids))
    IN  DeduplicateInMemory(all_sources, 1, Len(all_sources),
                            [seen_urls |-> {}, memory |-> InMemory(rs)]).memory

\* memory after calculate(rs) has returned c: the winning results were merged
\* if a consensus was reached
MemoryAfterCalculate(rs, voters, c) ==
    IF c.reached
    THEN _merge_sources_in_memory(rs,
            {voters[i].agent_id : i \in {k \in 1..Len(voters) : voters[k].outcome = c.outcome}})
    ELSE InMemory(rs)

UrlSet(r) == {r.sources[k].url : k \in 1..Len(r.sources)}

\* the (i, j) pairs with i < j, in the order of the two nested loops
AgentPairs(n) ==
    SelectSeq([k \in 1..(n * n) |-> <<((k - 1) \div n) + 1, ((k - 1) % n) + 1>>],
              LAMBDA p : p[1] < p[2])

\* the pairwise overlaps summed and not averaged
_sum_source_overlap(rs) ==
    IF Len(rs) < 2 THEN FromInt(1)
    ELSE LET agent_urls == [i \in 1..Len(rs) |-> UrlSet(rs[i])]
             pairs == SelectSeq(AgentPairs(Len(rs)),
                                LAMBDA p : agent_urls[p[1]] # {} /\ agent_urls[p[2]] # {})
         IN  FSum([k \in 1..Len(pairs) |->
                     FDiv(FromInt(Cardinality(agent_urls[pairs[k][1]]
                                              \cap agent_urls[pairs[k][2]])),
                          FromInt(Cardinality(agent_urls[pairs[k][1]]
                                              \cup agent_urls[pairs[k][2]])))])

_calculate_source_overlap(rs) ==
    IF Len(rs) < 2 THEN FromInt(1)
    ELSE LET agent_urls == SelectSeq([i \in 1..Len(rs) |-> UrlSet(rs[i])], LAMBDA us : TRUE)
             pairs == SelectSeq(AgentPairs(Len(rs)),
                                LAMBDA p : agent_urls[p[1]] # {} /\ agent_urls[p[2]] # {})
             overlaps == [k \in 1..Len(pairs) |->
                            FDiv(FromInt(Cardinality(agent_urls[pairs[k][1]]
                                                     \cap agent_urls[pairs[k][2]])),
                                 FromInt(Cardinality(agent_urls[pairs[k][1]]
                                                     \cup agent_urls[pairs[k][2]])))]
         IN  IF Len(overlaps) > 0
             THEN FDiv(FSum(overlaps), FromInt(Len(overlaps)))
             ELSE FZero

\* the keys of the votes / weights dicts, in insertion order
VoteOutcomes == <<YES, NO, UNDETERMINED>>

\* max(weights.keys(), key=...): the first key whose weight no later key exceeds
RECURSIVE MaxKeyFrom(_, _, _)
MaxKeyFrom(weights, i, best) ==
    IF i > Len(VoteOutcomes) THEN best
    ELSE MaxKeyFrom(weights, i + 1,
                    IF FLess(weights[best], weights[VoteOutcomes[i]])
                    THEN VoteOutcomes[i] ELSE best)

\* a maximum that lets the last of equal weights win
MaxKeyLast(weights) ==
    CHOOSE o \in {YES, NO, UNDETERMINED} :
        /\ \A p \in {YES, NO, UNDETERMINED} : FLeq(weights[p], weights[o])
        /\ \A k \in 1..3 : \A h \in 1..3 :
               (VoteOutcomes[k] = o /\ h > k) => FLess(weights[VoteOutcomes[h]], weights[o])

MaxKey(weights) == MaxKeyFrom(weights, 2, VoteOutcomes[1])

SumSourceCounts(rs) ==
    LET RECURSIVE Go(_, _)
        Go(i, acc) == IF i > Len(rs) THEN acc ELSE Go(i + 1, acc + Len(rs[i].sources))
    IN  Go(1, 0)

Confidences(rs) == [i \in 1..Len(rs) |-> rs[i].confidence]

\* effective_ratio > threshold in place of >=
ThresholdExceeded(effective_ratio, threshold) == FLess(threshold, effective_ratio)

\* weights[outcome] += weight, over the votes cast for one outcome, in list order
SumVoteWeights(cfg, voters) ==
    FSum([i \in 1..Len(voters) |-> _calculate_vote_weight(cfg, voters[i])])

ThresholdMet(effective_ratio, threshold) == FGeq(effective_ratio, threshold)

\* the plurality outcome reported where UNDETERMINED is
NoSupermajorityKeepsWinner(winning_outcome, winning_ratio, weighted_ratio, agent_count) ==
    ConsensusResult(FALSE, winning_outcome, FZero, winning_ratio, weighted_ratio, 0, 0, FZero,
                    agent_count, TRUE,
                    <<"No supermajority: highest agreement is ", FormatPercent1(winning_ratio)>>)

\* the ConsensusResult of the "No consensus" branch
NoSupermajority(winning_outcome, winning_ratio, weighted_ratio, agent_count) ==
    ConsensusResult(FALSE, UNDETERMINED, FZero, winning_ratio, weighted_ratio, 0, 0, FZero,
                    agent_count, TRUE,
                    <<"No supermajority: highest agreement is ", FormatPercent1(winning_ratio)>>)

\* "Check threshold": the ConsensusResult for the winner found
CheckThreshold(cfg, valid_results, winning_results, winning_outcome, winning_ratio, weighted_ratio) ==
    IF ThresholdMet(IF cfg.use_weighted_voting THEN weighted_ratio ELSE winning_ratio,
                    cfg.threshold)
    THEN ConsensusResult(TRUE, winning_outcome,
                         FDiv(FSum(Confidences(winning_results)),
                              FromInt(Len(winning_results))),
                         winning_ratio, weighted_ratio, SumSourceCounts(winning_results),
                         Len(_merge_sources(winning_results)),
                         _calculate_source_overlap(winning_results), Len(valid_results),
                         FALSE, None)
    ELSE NoSupermajority(winning_outcome, winning_ratio, weighted_ratio, Len(valid_results))

\* "Calculate ratios" and "Find winner", from the votes and weights by outcome
FindWinner(cfg, valid_results, votes, weights) ==
    LET total_weight == FSum([i \in 1..3 |-> weights[VoteOutcomes[i]]])
        total_votes == Len(valid_results)
        winning_outcome == MaxKey(weights)
        winning_ratio == IF total_votes > 0
                         THEN FDiv(FromInt(Len(votes[winning_outcome])), FromInt(total_votes))
                         ELSE FZero
        weighted_ratio == IF FLess(FZero, total_weight)
                          THEN FDiv(weights[winning_outcome], total_weight)
                          ELSE FZero
    IN  CheckThreshold(cfg, valid_results, votes[winning_outcome], winning_outcome,
                       winning_ratio, weighted_ratio)

\* "Group by outcome": votes and weights of the valid results
GroupByOutcome(cfg, valid_results) ==
    LET votes == [YES |-> SelectSeq(valid_results, LAMBDA r : r.outcome = YES),
                  NO |-> SelectSeq(valid_results, LAMBDA r : r.outcome = NO),
                  UNDETERMINED |-> SelectSeq(valid_results, LAMBDA r : r.outcome = UNDETERMINED)]
    IN  FindWinner(cfg, valid_results, votes,
                   [YES |-> SumVoteWeights(cfg, votes[YES]),
                    NO |-> SumVoteWeights(cfg, votes[NO]),
                    UNDETERMINED |-> SumVoteWeights(cfg, votes[UNDETERMINED])])

\* "Filter valid results", given them
FilterValid(cfg, rs, valid_results) ==
    IF Len(valid_results) < cfg.min_agents
    THEN ConsensusResult(FALSE, INVALID, FZero, FZero, FZero, 0, 0, FZero, Len(rs), TRUE,
             <<"Only ", ToString(Len(valid_results)), " valid results, need ",
               ToString(cfg.min_agents)>>)
    ELSE GroupByOutcome(cfg, valid_results)

calculate(cfg, rs) ==
    IF Len(rs) < cfg.min_agents
    THEN ConsensusResult(FALSE, INVALID, FZero, FZero, FZero, 0, 0, FZero, Len(rs), TRUE,
             <<"Need ", ToString(cfg.min_agents), "+ agents, got ", ToString(Len(rs))>>)
    ELSE FilterValid(cfg, rs, SelectSeq(rs, is_valid))

(***************************************************************************)
(* JSON-serializable values, as model_dump() and the callers build them.   *)
(* A dict keeps its items in insertion order.                              *)
(***************************************************************************)
JNull == <<"null">>
JBool(b) == <<"bool", b>>
JInt(n) == <<"int", n>>
JFloat(x) == <<"float", x>>
JStr(s) == <<"str", s>>
JList(items) == <<"list", items>>
JDict(items) == <<"dict", items>>
\* a float that is no finite number: "NaN", "Infinity" or "-Infinity"
JNonFinite(name) == <<"nonfinite", name>>
\* a member of an Enum, with its value
JEnum(value) == <<"enum", value>>
\* an object of a type neither json nor CanonicalJSONEncoder.default knows
JObject == <<"object">>

\* Optional[str]: the pieces of the string put together, or None
RECURSIVE Concat(_, _)
Concat(pieces, i) == IF i > Len(pieces) THEN "" ELSE pieces[i] \o Concat(pieces, i + 1)

JOptStr(pieces) == IF pieces = None THEN JNull ELSE JStr(Concat(pieces, 1))

(***************************************************************************)
(* json.dumps, as oracle/storage/canonical.py and strict_engine.py call    *)
(* it.  The text is built as the encoder builds it; strings hold no        *)
(* character that JSON escapes.                                            *)
(***************************************************************************)
Zeros(n) == CASE n <= 0 -> "" [] n = 1 -> "0" [] n = 2 -> "00" [] n = 3 -> "000" [] n = 4 -> "0000" [] n >= 5 -> "00000"

\* the number of trailing decimal zeros of m > 0
TrailingZeros(m) == CHOOSE k \in 0..9 : m % Pow10(k) = 0 /\ m % Pow10(k + 1) # 0

\* float.__repr__: the shortest digits that read back as x, in positional
\* notation from 1e-04 up and in exponent notation below
FloatRepr(x) ==
    IF x[1] = 0 THEN "0.0"
    ELSE LET z  == TrailingZeros(x[1])
             m  == x[1] \div Pow10(z)
             e  == x[2] + z
             nd == NumDigits(m)
             X  == e + nd - 1
         IN  IF e >= 0 THEN ToString(m * Pow10(e)) \o ".0"
             ELSE IF X >= 0
                  THEN LET frac == m % Pow10(0 - e)
                       IN  ToString(m \div Pow10(0 - e)) \o "."
                           \o Zeros((0 - e) - NumDigits(frac)) \o ToString(frac)
             ELSE IF X >= 0 - 4
                  THEN "0." \o Zeros((0 - X) - 1) \o ToString(m)
             ELSE LET lead == m \div Pow10(nd - 1)
                      rest == m % Pow10(nd - 1)
                  IN  ToString(lead)
                      \o (IF nd = 1 THEN ""
                          ELSE "." \o Zeros((nd - 1) - NumDigits(rest)) \o ToString(rest))
                      \o "e-" \o (IF 0 - X < 10 THEN "0" ELSE "") \o ToString(0 - X)

\* every dict key of the model, in the order of Python's str comparison (by
\* code point): sort_keys=True sorts a dict's items by key
KeyOrder ==
    << "INVALID", "NO", "UNDETERMINED", "YES", "agent_count", "agent_id", "agent_results",
       "agreement_ratio", "calculated_at", "category", "cited_by", "confidence",
       "confidence_stats", "conflicting_evidence", "consensus", "consensus_reached",
       "consensus_threshold", "contributing_factors", "credibility_score",
       "cross_verified_facts", "data_hash", "disagreement", "has_disagreement",
       "interpretation_conflict", "issues", "market_id", "max", "mean", "merged_sources",
       "min", "oracle_config_cid", "oracle_config_hash", "outcome",
       "outcome_distribution", "outcomes", "passed", "provable_data", "question",
       "reached", "reason", "relevance_score", "requires_human_review",
       "requires_manual_review", "research_completed_at", "research_started_at",
       "resolution_criteria", "resolution_recommendations", "review_reason",
       "shared_sources", "source_categories", "source_count", "source_overlap",
       "source_overlap_by_outcome", "sources", "spread", "tier1_sources", "tier2_sources",
       "tier_1", "tier_2", "tier_3", "tier_4_5", "tier_distribution", "timestamp",
       "total_agents", "total_sources", "unique_sources", "url", "valid_agents",
       "verification", "version", "warnings", "weighted_ratio" >>

KeyRank(key) == CHOOSE i \in 1..Len(KeyOrder) : KeyOrder[i] = key

\* the items are written in insertion order
KeepInsertionOrder(items) == items

\* sorted(dct.items()): each item goes after the items whose key is smaller
SortItems(items) ==
    LET ranks == SelectSeq([i \in 1..Len(items) |-> KeyRank(items[i][1])], LAMBDA r : TRUE)
        places == SelectSeq([i \in 1..Len(items) |->
                               1 + Cardinality({j \in 1..Len(items) : ranks[j] < ranks[i]})],
                            LAMBDA r : TRUE)
    IN  [p \in 1..Len(items) |-> items[CHOOSE i \in 1..Len(items) : places[i] = p]]

\* CanonicalJSONEncoder.default, for the objects json cannot serialize itself:
\* an Enum is replaced by its value
default(obj) == JStr(obj[2])

\* the encoder reaches an object that CanonicalJSONEncoder.default hands on to
\* JSONEncoder.default, which raises TypeError
RECURSIVE EncoderRaises(_)
EncoderRaises(v) ==
    CASE v[1] = "object" -> TRUE
      [] v[1] = "list" -> \E i \in 1..Len(v[2]) : EncoderRaises(v[2][i])
      [] v[1] = "dict" -> \E i \in 1..Len(v[2]) : EncoderRaises(v[2][i][2])
      [] OTHER -> FALSE

RECURSIVE JsonDumps(_, _, _, _)
RECURSIVE JsonJoin(_, _, _, _, _, _)
\* the elements of a list, or the "key": value members of a dict, from the
\* i-th on, separated by item_separator
JsonJoin(kind, items, i, sort_keys, item_separator, key_separator) ==
    IF i > Len(items) THEN ""
    ELSE (IF i > 1 THEN item_separator ELSE "")
         \o (IF kind = "dict"
             THEN "\"" \o items[i][1] \o "\"" \o key_separator
                  \o JsonDumps(items[i][2], sort_keys, item_separator, key_separator)
             ELSE JsonDumps(items[i], sort_keys, item_separator, key_separator))
         \o JsonJoin(kind, items, i + 1, sort_keys, item_separator, key_separator)

JsonDumps(v, sort_keys, item_separator, key_separator) ==
    CASE v[1] = "null" -> "null"
      [] v[1] = "bool" -> IF v[2] THEN "true" ELSE "false"
      [] v[1] = "int" -> ToString(v[2])
      [] v[1] = "float" -> FloatRepr(v[2])
      [] v[1] = "nonfinite" -> v[2]
      [] v[1] = "enum" -> JsonDumps(default(v), sort_keys, item_separator, key_separator)
      [] v[1] = "str" -> "\"" \o v[2] \o "\""
      [] v[1] = "list" ->
            "[" \o JsonJoin("list", v[2], 1, sort_keys, item_separator, key_separator) \o "]"
      [] v[1] = "dict" ->
            "{" \o JsonJoin("dict", IF sort_keys THEN SortItems(v[2]) ELSE v[2], 1,
                            sort_keys, item_separator, key_separator) \o "}"

(***************************************************************************)
(* oracle/storage/canonical.py                                             *)
(***************************************************************************)
\* json.dumps(data, cls=CanonicalJSONEncoder, sort_keys=True, separators=(",", ":"))
to_canonical_json(data) == JsonDumps(data, TRUE, ",", ":")

\* hashlib.sha256(data.encode("utf-8")).hexdigest().  SHA-256 is taken to be
\* collision-free: the digest names the text it was computed from.
calculate_sha256(data) == "sha256(" \o data \o ")"

calculate_data_hash(data) == <<to_canonical_json(data), calculate_sha256(to_canonical_json(data))>>

(***************************************************************************)
(* oracle/consensus/strict_engine.py                                       *)
(***************************************************************************)
StrictConsensusConfig(min_agents, threshold, use_weighted_voting, min_sources_per_agent, min_tier1_sources, min_tier2_sources, require_source_diversity, min_source_categories, min_individual_confidence, min_consensus_confidence, require_cross_verification, min_cross_verified_facts, max_confidence_spread) ==
    [min_agents |-> min_agents, threshold |-> threshold,
     use_weighted_voting |-> use_weighted_voting,
     min_sources_per_agent |-> min_sources_per_agent,
     min_tier1_sources |-> min_tier1_sources, min_tier2_sources |-> min_tier2_sources,
     require_source_diversity |-> require_source_diversity,
     min_source_categories |-> min_source_categories,
     min_individual_confidence |-> min_individual_confidence,
     min_consensus_confidence |-> min_consensus_confidence,
     require_cross_verification |-> require_cross_verification,
     min_cross_verified_facts |-> min_cross_verified_facts,
     max_confidence_spread |-> max_confidence_spread]

VerificationResult(passed, tier1_sources, tier2_sources, total_sources, unique_sources, source_categories, cross_verified_facts, issues, warnings) ==
    [passed |-> passed, tier1_sources |-> tier1_sources, tier2_sources |-> tier2_sources,
     total_sources |-> total_sources, unique_sources |-> unique_sources,
     source_categories |-> source_categories,
     cross_verified_facts |-> cross_verified_facts, issues |-> issues,
     warnings |-> warnings]

DisagreementAnalysis(has_disagreement, outcome_distribution, confidence_stats, source_overlap_by_outcome, conflicting_evidence, contributing_factors, resolution_recommendations, requires_manual_review, review_reason) ==
    [has_disagreement |-> has_disagreement, outcome_distribution |-> outcome_distribution,
     confidence_stats |-> confidence_stats,
     source_overlap_by_outcome |-> source_overlap_by_outcome,
     conflicting_evidence |-> conflicting_evidence,
     contributing_factors |-> contributing_factors,
     resolution_recommendations |-> resolution_recommendations,
     requires_manual_review |-> requires_manual_review, review_reason |-> review_reason]

\* the fields of ProvableConsensusData; disagreement is <<>> for None and
\* <<analysis>> otherwise
ProvableConsensusData(consensus_reached, outcome, confidence, agent_count, agreement_ratio, weighted_ratio, verification_, disagreement, total_sources, unique_sources, tier_distribution, calculated_at, data_hash) ==
    [consensus_reached |-> consensus_reached, outcome |-> outcome,
     confidence |-> confidence, agent_count |-> agent_count,
     agreement_ratio |-> agreement_ratio, weighted_ratio |-> weighted_ratio,
     verification |-> verification_, disagreement |-> disagreement,
     total_sources |-> total_sources, unique_sources |-> unique_sources,
     tier_distribution |-> tier_distribution, calculated_at |-> calculated_at,
     data_hash |-> data_hash]

Reverse(xs) == [i \in 1..Len(xs) |-> xs[Len(xs) + 1 - i]]

JStrList(xs) == JList([i \in 1..Len(xs) |-> JStr(xs[i])])

\* a dict[str, int] / dict[str, float] given as its items
JIntDict(items) == JDict([i \in 1..Len(items) |-> <<items[i][1], JInt(items[i][2])>>])
JFloatDict(items) == JDict([i \in 1..Len(items) |-> <<items[i][1], JFloat(items[i][2])>>])

\* VerificationResult.model_dump()
VerificationDump(v) ==
    JDict(<< <<"passed", JBool(v.passed)>>,
             <<"tier1_sources", JInt(v.tier1_sources)>>,
             <<"tier2_sources", JInt(v.tier2_sources)>>,
             <<"total_sources", JInt(v.total_sources)>>,
             <<"unique_sources", JInt(v.unique_sources)>>,
             <<"source_categories", JStrList(v.source_categories)>>,
             <<"cross_verified_facts", JInt(v.cross_verified_facts)>>,
             <<"issues", JStrList(v.issues)>>,
             <<"warnings", JStrList(v.warnings)>> >>)

ConflictDump(c) ==
    JDict(<< <<"outcomes", JStrList(c.outcomes)>>,
             <<"shared_sources", JStrList(c.shared_sources)>>,
             <<"interpretation_conflict", JBool(c.interpretation_conflict)>> >>)

\* DisagreementAnalysis.model_dump()
DisagreementDump(d) ==
    JDict(<< <<"has_disagreement", JBool(d.has_disagreement)>>,
             <<"outcome_distribution", JIntDict(d.outcome_distribution)>>,
             <<"confidence_stats", JFloatDict(d.confidence_stats)>>,
             <<"source_overlap_by_outcome", JFloatDict(d.source_overlap_by_outcome)>>,
             <<"conflicting_evidence",
               JList([i \in 1..Len(d.conflicting_evidence) |->
                         ConflictDump(d.conflicting_evidence[i])])>>,
             <<"contributing_factors", JStrList(d.contributing_factors)>>,
             <<"resolution_recommendations", JStrList(d.resolution_recommendations)>>,
             <<"requires_manual_review", JBool(d.requires_manual_review)>>,
             <<"review_reason", JOptStr(d.review_reason)>> >>)

\* ProvableConsensusData.model_dump(exclude={"data_hash"})
ProvableDump(p) ==
    JDict(<< <<"consensus_reached", JBool(p.consensus_reached)>>,
             <<"outcome", JStr(p.outcome)>>,
             <<"confidence", JFloat(p.confidence)>>,
             <<"agent_count", JInt(p.agent_count)>>,
             <<"agreement_ratio", JFloat(p.agreement_ratio)>>,
             <<"weighted_ratio", JFloat(p.weighted_ratio)>>,
             <<"verification", VerificationDump(p.verification)>>,
             <<"disagreement", IF p.disagreement = <<>> THEN JNull
                               ELSE DisagreementDump(p.disagreement[1])>>,
             <<"total_sources", JInt(p.total_sources)>>,
             <<"unique_sources", JInt(p.unique_sources)>>,
             <<"tier_distribution", JIntDict(p.tier_distribution)>>,
             <<"calculated_at", JStr(p.calculated_at)>> >>)

\* ProvableConsensusData.calculate_hash:
\* sha256(json.dumps(data, sort_keys=True, default=str).encode()).hexdigest(),
\* json.dumps with its default separators (", ", ": ")
calculate_hash(p) == calculate_sha256(JsonDumps(ProvableDump(p), TRUE, ", ", ": "))

\* datetime.utcnow().isoformat() at tick now
IsoFormat(now) == "2025-01-01T00:00:00.00000" \o ToString(now)

\* sum(...) of a list of ints
SumInts(counts) ==
    LET RECURSIVE Go(_, _)
        Go(i, acc) == IF i > Len(counts) THEN acc ELSE Go(i + 1, acc + counts[i])
    IN  Go(1, 0)

\* the float literals 0.9, 0.7 and 0.5 of the tier tests
Credibility09 == Dec(9, 1)
Credibility07 == Dec(7, 1)
Credibility05 == Dec(5, 1)

IsTier1(s) == s.category \in {OFFICIAL} \/ FGeq(s.credibility_score, Credibility09)

IsTier2(s) ==
    \/ s.category \in {NEWS}
    \/ (FLeq(Credibility07, s.credibility_score) /\ FLess(s.credibility_score, Credibility09))

\* the members of SourceCategory, in declaration order
CategoryValues == <<OFFICIAL, NEWS, SOCIAL, DOMAIN_SPECIFIC, FACT_CHECK>>

\* list(set(...)) of category values: the order in which a set of strings is
\* iterated depends on the process's hash seed; two orders stand for them all
ListOfCategories(set, seed) ==
    LET present == SelectSeq(CategoryValues, LAMBDA c : c \in set)
    IN  IF seed % 2 = 0 THEN present ELSE Reverse(present)

\* passed, with the two warnings counted as failures too
RequirementsMetWithoutWarnings(cfg, tier1_count, tier2_count, n_categories, cross_verified) ==
    /\ ~(tier1_count < cfg.min_tier1_sources)
    /\ ~(tier2_count < cfg.min_tier2_sources)
    /\ ~(cfg.require_source_diversity /\ n_categories < cfg.min_source_categories)
    /\ ~(cfg.require_cross_verification /\ cross_verified < cfg.min_cross_verified_facts)

\* passed after the requirement checks: True unless a tier check set it False
RequirementsMet(cfg, tier1_count, tier2_count, n_categories, cross_verified) ==
    /\ ~(tier1_count < cfg.min_tier1_sources)
    /\ ~(tier2_count < cfg.min_tier2_sources)

_verify_sources(cfg, rs, seed) ==
    LET agent_urls == SelectSeq([i \in 1..Len(rs) |-> UrlSet(rs[i])], LAMBDA us : TRUE)
        seen_urls == UNION {agent_urls[i] : i \in 1..Len(rs)}
        unique_count == Cardinality(seen_urls)
        tier1_count ==
            SumInts([i \in 1..Len(rs) |->
                       Cardinality({k \in 1..Len(rs[i].sources) : IsTier1(rs[i].sources[k])})])
        tier2_count ==
            SumInts([i \in 1..Len(rs) |->
                       Cardinality({k \in 1..Len(rs[i].sources) : IsTier2(rs[i].sources[k])})])
        categories ==
            ListOfCategories(UNION {{rs[i].sources[k].category : k \in 1..Len(rs[i].sources)}
                                    : i \in 1..Len(rs)}, seed)
        issues ==
            (IF tier1_count < cfg.min_tier1_sources
             THEN <<"Insufficient Tier 1 sources: " \o ToString(tier1_count) \o "/"
                    \o ToString(cfg.min_tier1_sources)>>
             ELSE <<>>)
            \o (IF tier2_count < cfg.min_tier2_sources
                THEN <<"Insufficient Tier 2 sources: " \o ToString(tier2_count) \o "/"
                       \o ToString(cfg.min_tier2_sources)>>
                ELSE <<>>)
        \* url_citation_count[url]: the occurrences of url over all agents' lists
        \* (an agent whose list repeats no URL cites each of its URLs once)
        repeats == SelectSeq([i \in 1..Len(rs) |->
                                Len(rs[i].sources) # Cardinality(agent_urls[i])],
                             LAMBDA b : TRUE)
        url_citation_count(url) ==
            SumInts([i \in 1..Len(rs) |->
                       IF url \notin agent_urls[i] THEN 0
                       ELSE IF ~repeats[i] THEN 1
                       ELSE Cardinality({k \in 1..Len(rs[i].sources) :
                                            rs[i].sources[k].url = url})])
        cross_verified == Cardinality({url \in seen_urls : url_citation_count(url) >= 2})
        warnings ==
            (IF cfg.require_source_diversity /\ Len(categories) < cfg.min_source_categories
             THEN <<"Limited source diversity: " \o ToString(Len(categories)) \o "/"
                    \o ToString(cfg.min_source_categories) \o " categories">>
             ELSE <<>>)
            \o (IF cfg.require_cross_verification
                   /\ cross_verified < cfg.min_cross_verified_facts
                THEN <<"Limited cross-verification: " \o ToString(cross_verified) \o "/"
                       \o ToString(cfg.min_cross_verified_facts) \o " facts">>
                ELSE <<>>)
    IN  VerificationResult(
            RequirementsMet(cfg, tier1_count, tier2_count, Len(categories), cross_verified),
            tier1_count, tier2_count, SumSourceCounts(rs), unique_count, categories,
            cross_verified, issues, warnings)

\* the distinct members of xs, in the order of their first occurrence: the
\* keys of a dict filled while iterating over xs
RECURSIVE FirstOccurrences(_, _, _)
FirstOccurrences(xs, i, acc) ==
    IF i > Len(xs) THEN acc
    ELSE FirstOccurrences(xs, i + 1,
                          IF \E j \in 1..Len(acc) : acc[j] = xs[i] THEN acc
                          ELSE Append(acc, xs[i]))

\* min(xs) / max(xs) of a non-empty list of floats
RECURSIVE FMinOf(_, _, _)
FMinOf(xs, i, best) == IF i > Len(xs) THEN best ELSE FMinOf(xs, i + 1, FMin(best, xs[i]))

RECURSIVE FMaxOf(_, _, _)
FMaxOf(xs, i, best) == IF i > Len(xs) THEN best ELSE FMaxOf(xs, i + 1, FMax(best, xs[i]))

\* the first n distinct members of xs
RECURSIVE TakeDistinct(_, _, _, _)
TakeDistinct(xs, i, acc, n) ==
    IF i > Len(xs) \/ Len(acc) = n THEN acc
    ELSE TakeDistinct(xs, i + 1,
                      IF \E j \in 1..Len(acc) : acc[j] = xs[i] THEN acc
                      ELSE Append(acc, xs[i]), n)

\* list(overlap)[:n] of a set of URLs, all of which occur in listing: the
\* order in which a set of strings is iterated depends on the process's hash
\* seed; two orders stand for them all
ListOfUrlsPrefix(overlap, listing, n, seed) ==
    LET present == SelectSeq(listing, LAMBDA u : u \in overlap)
    IN  TakeDistinct(IF seed % 2 = 0 THEN present ELSE Reverse(present), 1, <<>>, n)

\* the URLs of the results that voted for outcome, agent by agent
RECURSIVE UrlsByOutcome(_, _, _)
UrlsByOutcome(rs, outcome, i) ==
    IF i > Len(rs) THEN <<>>
    ELSE (IF rs[i].outcome = outcome
          THEN [k \in 1..Len(rs[i].sources) |-> rs[i].sources[k].url]
          ELSE <<>>)
         \o UrlsByOutcome(rs, outcome, i + 1)

\* ConsensusEngine.analyze_disagreement raises ValueError (min() of an empty
\* sequence) when there are no results; its return value is not used
analyze_disagreement_raises(rs) == Len(rs) = 0

_analyze_disagreement_detailed(cfg, rs, seed) ==
    LET outcomes == FirstOccurrences([i \in 1..Len(rs) |-> rs[i].outcome], 1, <<>>)
        outcome_dist ==
            [k \in 1..Len(outcomes) |->
                <<outcomes[k], Cardinality({i \in 1..Len(rs) : rs[i].outcome = outcomes[k]})>>]
        has_disagreement == Len(outcome_dist) > 1
        confidences == Confidences(SelectSeq(rs, is_valid))
        some == Len(confidences) > 0
        cmin == IF some THEN FMinOf(confidences, 2, confidences[1]) ELSE FZero
        cmax == IF some THEN FMaxOf(confidences, 2, confidences[1]) ELSE FZero
        mean == IF some THEN FDiv(FSum(confidences), FromInt(Len(confidences))) ELSE FZero
        spread == IF some THEN FSub(cmax, cmin) ELSE FZero
        conf_stats == << <<"min", cmin>>, <<"max", cmax>>, <<"mean", mean>>,
                         <<"spread", spread>> >>
        repeated == SelectSeq(outcomes,
                              LAMBDA o : Cardinality({i \in 1..Len(rs) : rs[i].outcome = o}) >= 2)
        source_overlap_by_outcome ==
            [k \in 1..Len(repeated) |->
                <<repeated[k],
                  _calculate_source_overlap(SelectSeq(rs, LAMBDA r : r.outcome = repeated[k]))>>]
        sources_by_outcome ==
            SelectSeq([k \in 1..Len(outcomes) |->
                          SelectSeq(UrlsByOutcome(rs, outcomes[k], 1), LAMBDA u : TRUE)],
                      LAMBDA us : TRUE)
        url_sets ==
            SelectSeq([k \in 1..Len(outcomes) |->
                          {sources_by_outcome[k][h] : h \in 1..Len(sources_by_outcome[k])}],
                      LAMBDA us : TRUE)
        conflicts ==
            SelectSeq(AgentPairs(Len(outcomes)),
                      LAMBDA p : url_sets[p[1]] \cap url_sets[p[2]] # {})
        conflicting_evidence ==
            IF has_disagreement
            THEN [c \in 1..Len(conflicts) |->
                    [outcomes |-> <<outcomes[conflicts[c][1]], outcomes[conflicts[c][2]]>>,
                     shared_sources |->
                        ListOfUrlsPrefix(url_sets[conflicts[c][1]] \cap url_sets[conflicts[c][2]],
                                         sources_by_outcome[conflicts[c][1]], 5, seed),
                     interpretation_conflict |-> TRUE]]
            ELSE <<>>
        wide == FLess(cfg.max_confidence_spread, spread)
        factors ==
            (IF wide THEN <<"High confidence spread among agents">> ELSE <<>>)
            \o (IF Len(conflicting_evidence) > 0
                THEN <<"Same sources interpreted differently">> ELSE <<>>)
            \o (IF Len(outcome_dist) >= 3 THEN <<"Three-way split in outcomes">> ELSE <<>>)
        recommendations ==
            (IF wide THEN <<"Consider human review due to confidence variance">> ELSE <<>>)
            \o (IF Len(outcome_dist) > 2
                THEN <<"Resolution criteria may need clarification">> ELSE <<>>)
            \o (IF ~has_disagreement /\ FLess(mean, Dec(7, 1))
                THEN <<"Low overall confidence - verify with additional sources">>
                ELSE <<>>)
        requires_review == wide \/ Len(conflicting_evidence) > 2
        review_reason ==
            IF wide THEN <<"High confidence variance">>
            ELSE IF Len(conflicting_evidence) > 2 THEN <<"Significant evidence conflicts">>
            ELSE None
    IN  DisagreementAnalysis(has_disagreement, outcome_dist, conf_stats,
                             source_overlap_by_outcome, conflicting_evidence, factors,
                             recommendations, requires_review, review_reason)

\* the tier _generate_provable_data files a source under
TierOf(s) ==
    IF FGeq(s.credibility_score, Credibility09) THEN "tier_1"
    ELSE IF FGeq(s.credibility_score, Credibility07) THEN "tier_2"
    ELSE IF FGeq(s.credibility_score, Credibility05) THEN "tier_3"
    ELSE "tier_4_5"

\* the tiers of all sources, agent by agent
RECURSIVE TiersOf(_, _)
TiersOf(rs, i) ==
    IF i > Len(rs) THEN <<>>
    ELSE [k \in 1..Len(rs[i].sources) |-> TierOf(rs[i].sources[k])] \o TiersOf(rs, i + 1)

\* the position of the first t in tiers
FirstIndex(tiers, t) == CHOOSE i \in 1..Len(tiers) : tiers[i] = t /\ \A j \in 1..(i - 1) : tiers[j] # t

\* tier_dist as its items: the tiers that occur, in the order in which the
\* loop meets them first (the insertion order of the dict), with their counts
TierDistribution(tiers) ==
    LET names == {tiers[i] : i \in 1..Len(tiers)}
        nth(p) == CHOOSE t \in names :
                     Cardinality({u \in names : FirstIndex(tiers, u) < FirstIndex(tiers, t)}) = p - 1
    IN  [p \in 1..Cardinality(names) |->
            <<nth(p), Cardinality({i \in 1..Len(tiers) : tiers[i] = nth(p)})>>]

\* model_post_init: data_hash is filled in when none was passed
model_post_init(p) == IF p.data_hash = None THEN [p EXCEPT !.data_hash = calculate_hash(p)] ELSE p

_generate_provable_data(rs, consensus_, verification_, disagreement, now) ==
    model_post_init(
        ProvableConsensusData(consensus_.reached, consensus_.outcome, consensus_.confidence,
                              consensus_.agent_count, consensus_.agreement_ratio,
                              consensus_.weighted_ratio, verification_, disagreement,
                              consensus_.total_sources, consensus_.unique_sources,
                              TierDistribution(SelectSeq(TiersOf(rs, 1), LAMBDA t : TRUE)),
                              IsoFormat(now), None))

\* step 4 without the check of the verification requirements
AdditionalChecksWithoutVerification(cfg, c, verification_) ==
    IF c.reached /\ FLess(c.confidence, cfg.min_consensus_confidence)
    THEN [c EXCEPT !.reached = FALSE, !.requires_human_review = TRUE,
                   !.reason = <<"Confidence ", FormatPercent1(c.confidence),
                                " below minimum ",
                                FormatPercent1(cfg.min_consensus_confidence)>>]
    ELSE c

\* the ConsensusResult after the additional checks of step 4
AdditionalChecks(cfg, c, verification_) ==
    IF ~c.reached THEN c
    ELSE LET low == FLess(c.confidence, cfg.min_consensus_confidence)
             c1 == IF low
                   THEN [c EXCEPT !.reached = FALSE, !.requires_human_review = TRUE,
                                  !.reason = <<"Confidence ", FormatPercent1(c.confidence),
                                               " below minimum ",
                                               FormatPercent1(cfg.min_consensus_confidence)>>]
                   ELSE c
         IN  IF ~verification_.passed
             THEN [c1 EXCEPT !.requires_human_review = TRUE]
             ELSE c1

\* step 2 without the confidence threshold
QualifiedResultsAnyConfidence(cfg, rs) == SelectSeq(rs, is_valid)

\* step 2: filter by confidence threshold
QualifiedResults(cfg, rs) ==
    SelectSeq(rs, LAMBDA r : is_valid(r)
                             /\ FGeq(r.confidence, cfg.min_individual_confidence))

\* steps 2 and 3: the base consensus of the qualified results
BaseConsensus(cfg, rs, qualified_results) ==
    IF Len(qualified_results) < cfg.min_agents
    THEN ConsensusResult(FALSE, UNDETERMINED, FZero, FZero, FZero, 0, 0, FZero, Len(rs), TRUE,
                         <<"Only ", ToString(Len(qualified_results)),
                           " qualified results, need ", ToString(cfg.min_agents)>>)
    ELSE calculate(cfg, qualified_results)

\* step 6 with the analysis passed on whether or not it found a disagreement
StrictReturnWithPlaceholder(rs, consensus_, verification_, disagreement, now) ==
    [raised |-> FALSE,
     consensus |-> consensus_,
     verification |-> verification_,
     provable_data |->
        _generate_provable_data(rs, consensus_, verification_, <<disagreement>>, now)]

\* step 6 and the return
StrictReturn(rs, consensus_, verification_, disagreement, now) ==
    [raised |-> FALSE,
     consensus |-> consensus_,
     verification |-> verification_,
     provable_data |->
        _generate_provable_data(rs, consensus_, verification_,
                                IF disagreement.has_disagreement
                                THEN <<disagreement>> ELSE <<>>,
                                now)]

\* calculate_strict(results) by an engine with strict_config cfg, in a process
\* with hash seed seed, at tick now: either it raises, or it returns
\* (consensus, provable_data)
calculate_strict(cfg, rs, seed, now) ==
    LET verification_ == _verify_sources(cfg, rs, seed)
        qualified_results == QualifiedResults(cfg, rs)
    IN  IF analyze_disagreement_raises(rs)
        THEN [raised |-> TRUE]
        ELSE StrictReturn(rs,
                          AdditionalChecks(cfg, BaseConsensus(cfg, rs, qualified_results),
                                           verification_),
                          verification_, _analyze_disagreement_detailed(cfg, rs, seed), now)

(***************************************************************************)
(* oracle/storage/builder.py                                               *)
(***************************************************************************)
\* OracleResearchDataBuilder.__init__
OracleResearchDataBuilder(market_id, question, resolution_criteria) ==
    [market_id |-> market_id, question |-> question,
     resolution_criteria |-> resolution_criteria,
     research_started_at |-> None, research_completed_at |-> None,
     _agent_results |-> <<>>, _consensus |-> None, _provable_data |-> None,
     _oracle_config_cid |-> None, _oracle_config_hash |-> None,
     _merged_sources |-> <<>>]

\* [s.model_dump() for s in sources]
SourceDumps(sources) ==
    JList([i \in 1..Len(sources) |->
             JDict(<< <<"url", JStr(sources[i].url)>>,
                      <<"category", JEnum(sources[i].category)>>,
                      <<"relevance_score", JFloat(sources[i].relevance_score)>>,
                      <<"credibility_score", JFloat(sources[i].credibility_score)>>,
                      <<"cited_by", JStrList(sources[i].cited_by)>> >>)])

\* the ResearchDataEntry that build makes of an agent's result
ResearchDataEntry(result) ==
    JDict(<< <<"agent_id", JStr(result.agent_id)>>,
             <<"outcome", JStr(result.outcome)>>,
             <<"confidence", JFloat(result.confidence)>>,
             <<"sources", SourceDumps(result.sources)>>,
             <<"source_count", JInt(Len(result.sources))>> >>)

\* self._consensus.model_dump(), or the dict that stands for no consensus
ConsensusDump(c) ==
    IF c = None
    THEN JDict(<< <<"reached", JBool(FALSE)>>, <<"outcome", JStr(UNDETERMINED)>> >>)
    ELSE JDict(<< <<"reached", JBool(c[1].reached)>>,
                  <<"outcome", JEnum(c[1].outcome)>>,
                  <<"confidence", JFloat(c[1].confidence)>>,
                  <<"agreement_ratio", JFloat(c[1].agreement_ratio)>>,
                  <<"weighted_ratio", JFloat(c[1].weighted_ratio)>>,
                  <<"total_sources", JInt(c[1].total_sources)>>,
                  <<"unique_sources", JInt(c[1].unique_sources)>>,
                  <<"source_overlap", JFloat(c[1].source_overlap)>>,
                  <<"agent_count", JInt(c[1].agent_count)>>,
                  <<"requires_human_review", JBool(c[1].requires_human_review)>>,
                  <<"reason", JOptStr(c[1].reason)>> >>)

\* OracleResearchData(...).model_dump(), model_post_init applied: a
\* valid_agents of 0 is replaced by the number of entries with 3 sources or more
OracleResearchData(b, started, completed) ==
    LET rs == b._agent_results
        counts == [i \in 1..Len(rs) |-> Len(rs[i].sources)]
        valid_agents == Len(SelectSeq(rs, is_valid))
    IN  JDict(<< <<"version", JStr("2.0.0")>>,
                 <<"oracle_config_cid", JOptStr(b._oracle_config_cid)>>,
                 <<"oracle_config_hash", JOptStr(b._oracle_config_hash)>>,
                 <<"market_id", JInt(b.market_id)>>,
                 <<"question", JStr(b.question)>>,
                 <<"resolution_criteria", JStr(b.resolution_criteria)>>,
                 <<"research_started_at", JStr(started[1])>>,
                 <<"research_completed_at", JStr(completed[1])>>,
                 <<"agent_results", JList([i \in 1..Len(rs) |-> ResearchDataEntry(rs[i])])>>,
                 <<"consensus", ConsensusDump(b._consensus)>>,
                 <<"merged_sources", SourceDumps(b._merged_sources)>>,
                 <<"provable_data", JNull>>,
                 <<"total_agents", JInt(Len(rs))>>,
                 <<"valid_agents",
                   JInt(IF valid_agents = 0
                        THEN Cardinality({i \in 1..Len(rs) : counts[i] >= 3})
                        ELSE valid_agents)>>,
                 <<"total_sources", JInt(SumInts(counts))>>,
                 <<"unique_sources",
                   JInt(Cardinality(UNION {UrlSet(rs[i]) : i \in 1..Len(rs)}))>> >>)

\* build that fills in the missing timestamps of the record only, leaving the
\* builder's own fields unset
build_without_keeping_timestamps(b, now) ==
    LET started == IF b.research_started_at = None THEN <<IsoFormat(now)>>
                   ELSE b.research_started_at
        ticks == IF b.research_started_at = None THEN 1 ELSE 0
        completed == IF b.research_completed_at = None THEN <<IsoFormat(now + ticks)>>
                     ELSE b.research_completed_at
    IN  [builder |-> b,
         research_data |-> OracleResearchData(b, started, completed),
         utcnow_calls |-> ticks + (IF b.research_completed_at = None THEN 1 ELSE 0)]

\* OracleResearchDataBuilder.build at time now: the builder as build leaves it,
\* the record returned and the number of times the clock was read
build(b, now) ==
    LET started == IF b.research_started_at = None THEN <<IsoFormat(now)>>
                   ELSE b.research_started_at
        ticks == IF b.research_started_at = None THEN 1 ELSE 0
        completed == IF b.research_completed_at = None THEN <<IsoFormat(now + ticks)>>
                     ELSE b.research_completed_at
    IN  [builder |-> [b EXCEPT !.research_started_at = started,
                               !.research_completed_at = completed],
         research_data |-> OracleResearchData(b, started, completed),
         utcnow_calls |-> ticks + (IF b.research_completed_at = None THEN 1 ELSE 0)]

(***************************************************************************)
(* The inputs.  sample_sources is the fixture of tests/conftest.py: 6      *)
(* official, 16 news, 12 social, 12 domain-specific and 4 fact-check       *)
(* sources; source k > 50 repeats the attributes of source k - 50 under a  *)
(* new URL.                                                                *)
(***************************************************************************)
Url(k) == "https://source/" \o ToString(k)

sample_source(k) ==
    LET i == (k - 1) % 50 IN
    IF i < 6 THEN ResearchSource(Url(k), OFFICIAL, Dec(9, 1), Dec(95, 2), <<>>)
    ELSE IF i < 22 THEN ResearchSource(Url(k), NEWS, Dec(85, 2), Dec(9, 1), <<>>)
    ELSE IF i < 34 THEN ResearchSource(Url(k), SOCIAL, Dec(7, 1), Dec(7, 1), <<>>)
    ELSE IF i < 46 THEN ResearchSource(Url(k), DOMAIN_SPECIFIC, Dec(8, 1), Dec(8, 1), <<>>)
    ELSE ResearchSource(Url(k), FACT_CHECK, Dec(95, 2), Dec(95, 2), <<>>)

\* sample_sources[first - 1 : first - 1 + n]
sample_sources(first, n) == [i \in 1..n |-> sample_source(first + i - 1)]

Input(outcome, confidence, sources, error) ==
    [outcome |-> outcome, confidence |-> confidence, sources |-> sources, error |-> error]

\* what the agents of a batch may report to calculate / calculate_strict
VoterInputs ==
    { Input(YES, Dec(999, 3), sample_sources(1, 50), None),
      Input(YES, Dec(4, 3), sample_sources(26, 50), None),
      Input(NO, Dec(999, 3), sample_sources(1, 50), None),
      Input(UNDETERMINED, Dec(999, 3), sample_sources(1, 50), None),
      Input(NO, Dec(85, 2), sample_sources(1, 49), None),
      Input(YES, Dec(85, 2), sample_sources(1, 50), <<"agent failed">>),
      Input(INVALID, Dec(85, 2), sample_sources(1, 50), None) }

ConfigInputs ==
    { ConsensusConfig(3, Dec(67, 2), TRUE, 50),
      ConsensusConfig(2, Dec(67, 2), TRUE, 2),
      ConsensusConfig(2, Dec(5, 1), FALSE, 50) }

\* no call has returned yet
NoConsensus == ConsensusResult(FALSE, INVALID, FZero, FZero, FZero, 0, 0, FZero, 0, FALSE, None)

(***************************************************************************)
(* The caller.                                                             *)
(***************************************************************************)
Init ==
    /\ config \in ConfigInputs
    /\ results = <<>>
    /\ clock = 0
    /\ last = "init"
    /\ consensus = NoConsensus
    /\ before = NoConsensus
    /\ merged = <<>>
    /\ verification = <<>>
    /\ provable = <<>>
    /\ document = <<>>
    /\ canonical = <<>>
    /\ digest = <<>>
    /\ hash_seed = 0
    /\ builder = <<>>
    /\ calls = 0
    /\ pairwise_overlap = <<>>
    /\ heap = <<>>
    /\ attempt = 0
    /\ max_retries = 0

\* an agent's result joins the batch the caller is assembling
AddResult ==
    /\ last \in {"init", "add"}
    /\ Len(results) < MaxAgents
    /\ \E a \in VoterInputs :
          results' = Append(results,
                            AgentResult("agent-" \o ToString(Len(results) + 1),
                                        a.outcome, a.confidence, a.sources, a.error))
    /\ last' = "add"
    /\ UNCHANGED <<heap, attempt, max_retries, builder, calls, pairwise_overlap, config, clock, consensus, before, merged, verification, provable,
                   document, canonical, digest, hash_seed>>

Swap(xs, i) ==
    [k \in 1..Len(xs) |-> IF k = i THEN xs[i + 1] ELSE IF k = i + 1 THEN xs[i] ELSE xs[k]]

\* the caller reorders a batch it has had calculate() evaluate
Reorder ==
    /\ last = "calculate"
    /\ \E i \in 1..(Len(results) - 1) : results' = Swap(results, i)
    /\ before' = consensus
    /\ last' = "reorder"
    /\ UNCHANGED <<heap, attempt, max_retries, builder, calls, pairwise_overlap, config, clock, consensus, merged, verification, provable,
                   document, canonical, digest, hash_seed>>

\* ConsensusEngine(config).calculate(results)
Calculate ==
    /\ last \in {"add", "reorder"}
    /\ consensus' = calculate(config, results)
    /\ last' = IF last = "reorder" THEN "recalculate" ELSE "calculate"
    /\ UNCHANGED <<heap, attempt, max_retries, builder, calls, pairwise_overlap, config, results, clock, before, merged, verification, provable,
                   document, canonical, digest, hash_seed>>

\* what the agents of a batch handed to merge_sources may cite: up to two of
\* three sources, two of which share a URL
CitedSources ==
    { ResearchSource(Url(1), NEWS, Dec(9, 1), Dec(9, 1), <<>>),
      ResearchSource(Url(1), SOCIAL, Dec(5, 1), Dec(5, 1), <<"agent-9">>),
      ResearchSource(Url(2), OFFICIAL, Dec(9, 1), Dec(95, 2), <<>>) }

CitationInputs ==
    {<<>>} \cup {<<a>> : a \in CitedSources}
           \cup {<<a, b>> : a \in CitedSources, b \in CitedSources}

\* an agent's result joins a batch whose sources are to be merged
AddCitations ==
    /\ last \in {"init", "add"}
    /\ Len(results) < MaxCiters
    /\ \E sources \in CitationInputs :
          results' = Append(results,
                            AgentResult("agent-" \o ToString(Len(results) + 1),
                                        YES, Dec(85, 2), sources, None))
    /\ last' = "add"
    /\ UNCHANGED <<heap, attempt, max_retries, builder, calls, pairwise_overlap, config, clock, consensus, before, merged, verification, provable,
                   document, canonical, digest, hash_seed>>

\* engine._merge_sources(results)
MergeSources ==
    /\ last = "add"
    /\ merged' = _merge_sources(results)
    /\ last' = "merge_sources"
    /\ UNCHANGED <<heap, attempt, max_retries, builder, calls, pairwise_overlap, config, results, clock, consensus, before, verification, provable,
                   document, canonical, digest, hash_seed>>

\* values handed to the codec: an OracleResearchData in the making
DocumentInputs ==
    { JDict(<< <<"market_id", JInt(7)>>,
               <<"question", JStr("Will it happen?")>>,
               <<"consensus", JDict(<< <<"reached", JBool(TRUE)>>,
                                       <<"outcome", JStr(YES)>>,
                                       <<"confidence", JFloat(Dec(85, 2))>> >>)>>,
               <<"merged_sources", JList(<< JDict(<< <<"url", JStr(Url(1))>>,
                                                     <<"category", JStr(NEWS)>> >>) >>)>> >>),
      JDict(<< <<"total_sources", JInt(150)>>,
               <<"unique_sources", JInt(75)>>,
               <<"provable_data", JNull>> >>),
      JDict(<< <<"outcome", JEnum(YES)>>,
               <<"confidence", JNonFinite("NaN")>> >>),
      JDict(<< <<"market_id", JInt(7)>>,
               <<"confidence_stats", JList(<< JNonFinite("Infinity"),
                                              JNonFinite("-Infinity") >>)>> >>),
      JDict(<< <<"market_id", JInt(7)>>,
               <<"merged_sources", JList(<< JDict(<< <<"url", JObject>> >>) >>)>> >>) }

\* the caller has a value to store
SubmitDocument ==
    /\ last = "init"
    /\ document' \in DocumentInputs
    /\ last' = "submit"
    /\ UNCHANGED <<heap, attempt, max_retries, builder, calls, pairwise_overlap, config, results, clock, consensus, before, merged, verification,
                   provable, canonical, digest, hash_seed>>

\* calculate_data_hash(document)
Canonicalize ==
    /\ last \in {"submit", "reorder_keys"}
    /\ IF EncoderRaises(document)
       THEN /\ last' = "canonicalize raised"
            /\ UNCHANGED <<canonical, digest>>
       ELSE /\ canonical' = calculate_data_hash(document)[1]
            /\ digest' = calculate_data_hash(document)[2]
            /\ last' = IF last = "reorder_keys" THEN "recanonicalize" ELSE "canonicalize"
    /\ UNCHANGED <<heap, attempt, max_retries, builder, calls, pairwise_overlap, config, results, clock, consensus, before, merged, verification,
                   provable, document, hash_seed>>

\* the same dict with two neighbouring items in the other insertion order
SwapKeys(d, i) == JDict(Swap(d[2], i))

\* the caller rebuilds the value with the keys of one of its dicts (the value
\* itself, a dict under one of its keys, or a dict in a list under one of
\* its keys) inserted in another order
ReorderKeys ==
    /\ last \in {"canonicalize", "recanonicalize"}
    /\ \/ \E i \in 1..(Len(document[2]) - 1) : document' = SwapKeys(document, i)
       \/ \E k \in 1..Len(document[2]) :
             /\ document[2][k][2][1] = "dict"
             /\ \E i \in 1..(Len(document[2][k][2][2]) - 1) :
                   document' = JDict([document[2] EXCEPT ![k][2] = SwapKeys(@, i)])
       \/ \E k \in 1..Len(document[2]) :
             /\ document[2][k][2][1] = "list"
             /\ \E j \in 1..Len(document[2][k][2][2]) :
                   /\ document[2][k][2][2][j][1] = "dict"
                   /\ \E i \in 1..(Len(document[2][k][2][2][j][2]) - 1) :
                         document' = JDict([document[2] EXCEPT
                                              ![k][2] = JList([@[2] EXCEPT ![j] = SwapKeys(@, i)])])
    /\ before' = <<canonical, digest>>
    /\ last' = "reorder_keys"
    /\ UNCHANGED <<heap, attempt, max_retries, builder, calls, pairwise_overlap, config, results, clock, consensus, merged, verification, provable,
                   canonical, digest, hash_seed>>

\* the configurations of the strict engine: the defaults; a pair of agents
\* suffices but 60 tier-1 sources and a consensus confidence of 0.9 are asked
\* for; unweighted voting with 90 tier-2 sources asked for and the diversity
\* and cross-verification checks switched off
StrictConfigInputs ==
    { StrictConsensusConfig(3, Dec(67, 2), TRUE, 50, 2, 3, TRUE, 3, Dec(6, 1), Dec(7, 1),
                            TRUE, 3, Dec(3, 1)),
      StrictConsensusConfig(2, Dec(67, 2), TRUE, 50, 60, 3, TRUE, 3, Dec(6, 1), Dec(9, 1),
                            TRUE, 3, Dec(3, 1)),
      StrictConsensusConfig(2, Dec(5, 1), FALSE, 50, 2, 90, FALSE, 3, Dec(6, 1), Dec(7, 1),
                            FALSE, 3, Dec(3, 1)) }

HashSeeds == {0, 1}

InitStrict ==
    /\ config \in StrictConfigInputs
    /\ results = <<>>
    /\ clock = 0
    /\ last = "init"
    /\ consensus = NoConsensus
    /\ before = NoConsensus
    /\ merged = <<>>
    /\ verification = <<>>
    /\ provable = <<>>
    /\ document = <<>>
    /\ canonical = <<>>
    /\ digest = <<>>
    /\ hash_seed \in HashSeeds
    /\ builder = <<>>
    /\ calls = 0
    /\ pairwise_overlap = <<>>
    /\ heap = <<>>
    /\ attempt = 0
    /\ max_retries = 0

\* StrictConsensusEngine(config)._verify_sources(results)
VerifySources ==
    /\ last \in {"init", "add"}
    /\ verification' = _verify_sources(config, results, hash_seed)
    /\ last' = "verify_sources"
    /\ UNCHANGED <<heap, attempt, max_retries, builder, calls, pairwise_overlap, config, results, clock, consensus, before, merged, provable,
                   document, canonical, digest, hash_seed>>

\* what the agents of a batch may report to calculate_strict: confident,
\* qualified but not confident enough for a consensus, valid but unqualified,
\* dissenting, and short of sources
QualifyingInputs ==
    { Input(YES, Dec(999, 3), sample_sources(1, 50), None),
      Input(YES, Dec(65, 2), sample_sources(1, 50), None),
      Input(YES, Dec(4, 3), sample_sources(26, 50), None),
      Input(NO, Dec(999, 3), sample_sources(1, 50), None),
      Input(NO, Dec(85, 2), sample_sources(1, 49), None) }

\* an agent's result joins the batch handed to the strict engine
AddQualifying ==
    /\ last \in {"init", "add"}
    /\ Len(results) < MaxAgents
    /\ \E a \in QualifyingInputs :
          results' = Append(results,
                            AgentResult("agent-" \o ToString(Len(results) + 1),
                                        a.outcome, a.confidence, a.sources, a.error))
    /\ last' = "add"
    /\ UNCHANGED <<heap, attempt, max_retries, builder, calls, pairwise_overlap, config, clock, consensus, before, merged,
                   verification, provable, document, canonical, digest, hash_seed>>

\* the caller keeps what calculate_strict returned, if it did not raise
StrictOutcome(returned) ==
    IF returned.raised
    THEN /\ last' = "calculate_strict raised"
         /\ UNCHANGED <<consensus, verification, provable>>
    ELSE /\ last' = "calculate_strict"
         /\ consensus' = returned.consensus
         /\ verification' = returned.verification
         /\ provable' = returned.provable_data

\* StrictConsensusEngine(config).calculate_strict(results)
CalculateStrict ==
    /\ last \in {"init", "add"}
    /\ clock < MaxClock
    /\ StrictOutcome(calculate_strict(config, results, hash_seed, clock))
    /\ clock' = clock + 1
    /\ UNCHANGED <<heap, attempt, max_retries, builder, calls, pairwise_overlap, config, results, before, merged, document, canonical, digest,
                   hash_seed>>

\* the caller invokes calculate_strict again on the batch and configuration of
\* the call that has just returned, keeping what that call returned
RecalculateStrict ==
    /\ last = "calculate_strict"
    /\ clock <= MaxClock
    /\ before' = <<consensus, provable>>
    /\ LET returned == calculate_strict(config, results, hash_seed, clock)
       IN  /\ consensus' = returned.consensus
           /\ verification' = returned.verification
           /\ provable' = returned.provable_data
    /\ clock' = clock + 1
    /\ last' = "recalculate_strict"
    /\ UNCHANGED <<heap, attempt, max_retries, builder, calls, pairwise_overlap, config, results, merged, document,
                   canonical, digest, hash_seed>>

(***************************************************************************)
(* The caller of the research data builder.                                *)
(***************************************************************************)
InitBuilder ==
    /\ config = ConsensusConfig(2, Dec(5, 1), FALSE, 50)
    /\ results = <<>>
    /\ clock = 0
    /\ last = "init"
    /\ consensus = NoConsensus
    /\ before = <<>>
    /\ merged = <<>>
    /\ verification = <<>>
    /\ provable = <<>>
    /\ document = <<>>
    /\ canonical = <<>>
    /\ digest = <<>>
    /\ hash_seed = 0
    /\ builder = OracleResearchDataBuilder(7, "Will it happen?", "Official announcement")
    /\ calls = 0
    /\ pairwise_overlap = <<>>
    /\ heap = <<>>
    /\ attempt = 0
    /\ max_retries = 0

\* the result handed to add_agent_result, of three sources
BuilderInputs ==
    { Input(YES, Dec(85, 2), sample_sources(5, 3), None) }

\* builder.start_research()
StartResearch ==
    /\ calls < MaxCalls
    /\ builder' = [builder EXCEPT !.research_started_at = <<IsoFormat(clock)>>]
    /\ clock' = clock + 1
    /\ calls' = calls + 1
    /\ last' = "start_research"
    /\ UNCHANGED <<heap, attempt, max_retries, pairwise_overlap, config, results, consensus, before, merged,
                   verification, provable, document, canonical, digest, hash_seed>>

\* builder.add_agent_result(result)
AddAgentResult ==
    /\ calls < MaxCalls
    /\ \E a \in BuilderInputs :
          builder' = [builder EXCEPT !._agent_results =
                        Append(@, AgentResult("agent-" \o ToString(Len(@) + 1),
                                              a.outcome, a.confidence, a.sources, a.error))]
    /\ calls' = calls + 1
    /\ last' = "add_agent_result"
    /\ UNCHANGED <<heap, attempt, max_retries, pairwise_overlap, config, results, clock, consensus, before, merged,
                   verification, provable, document, canonical, digest, hash_seed>>

\* builder.set_consensus(engine.calculate(agent_results))
SetConsensus ==
    /\ calls < MaxCalls
    /\ builder' = [builder EXCEPT !._consensus = <<calculate(config, builder._agent_results)>>,
                                  !._provable_data = None]
    /\ calls' = calls + 1
    /\ last' = "set_consensus"
    /\ UNCHANGED <<heap, attempt, max_retries, pairwise_overlap, config, results, clock, consensus, before, merged,
                   verification, provable, document, canonical, digest, hash_seed>>

\* builder.set_merged_sources(engine._merge_sources(agent_results))
SetMergedSources ==
    /\ calls < MaxCalls
    /\ builder' = [builder EXCEPT !._merged_sources = _merge_sources(builder._agent_results)]
    /\ calls' = calls + 1
    /\ last' = "set_merged_sources"
    /\ UNCHANGED <<heap, attempt, max_retries, pairwise_overlap, config, results, clock, consensus, before, merged,
                   verification, provable, document, canonical, digest, hash_seed>>

\* builder.set_oracle_config(config, cid): the hash is that of the config's
\* canonical JSON
SetOracleConfig ==
    /\ calls < MaxCalls
    /\ \E cid \in {None, <<"QmOracleConfig">>} :
          builder' = [builder EXCEPT
                        !._oracle_config_cid = cid,
                        !._oracle_config_hash =
                           <<calculate_data_hash(
                                JDict(<< <<"market_id", JInt(builder.market_id)>>,
                                         <<"question", JStr(builder.question)>>,
                                         <<"consensus_threshold",
                                           JFloat(config.threshold)>> >>))[2]>>]
    /\ calls' = calls + 1
    /\ last' = "set_oracle_config"
    /\ UNCHANGED <<heap, attempt, max_retries, pairwise_overlap, config, results, clock, consensus, before, merged,
                   verification, provable, document, canonical, digest, hash_seed>>

\* builder.complete_research()
CompleteResearch ==
    /\ calls < MaxCalls
    /\ builder' = [builder EXCEPT !.research_completed_at = <<IsoFormat(clock)>>]
    /\ clock' = clock + 1
    /\ calls' = calls + 1
    /\ last' = "complete_research"
    /\ UNCHANGED <<heap, attempt, max_retries, pairwise_overlap, config, results, consensus, before, merged,
                   verification, provable, document, canonical, digest, hash_seed>>

\* what the caller keeps of a build: the record, its canonical JSON and hash
\* (get_hash_data), and those of the build before
BuildOutcome(built) ==
    /\ builder' = built.builder
    /\ document' = built.research_data
    /\ canonical' = calculate_data_hash(built.research_data)[1]
    /\ digest' = calculate_data_hash(built.research_data)[2]
    /\ clock' = clock + built.utcnow_calls

\* builder.build(); a second build may follow at once
Build ==
    /\ last # "rebuild"
    /\ BuildOutcome(build(builder, clock))
    /\ before' = <<canonical, digest>>
    /\ last' = IF last = "build" THEN "rebuild" ELSE "build"
    /\ UNCHANGED <<heap, attempt, max_retries, calls, pairwise_overlap, config, results, consensus, merged,
                   verification, provable, hash_seed>>

NextBuilder ==
    \/ StartResearch \/ AddAgentResult \/ SetConsensus \/ SetMergedSources
    \/ SetOracleConfig \/ CompleteResearch \/ Build

SpecBuilder == InitBuilder /\ [][NextBuilder]_vars

(***************************************************************************)
(* The caller of calculate with votes of every confidence.                 *)
(***************************************************************************)
\* what the agents of such a batch may report: each outcome with confidence
\* 0.0 (the least the confidence field admits) and with a positive one, and
\* a result one source short of valid
ConfidenceInputs ==
    { Input(YES, FZero, sample_sources(1, 50), None),
      Input(YES, Dec(999, 3), sample_sources(1, 50), None),
      Input(NO, FZero, sample_sources(1, 50), None),
      Input(NO, Dec(4, 3), sample_sources(1, 50), None),
      Input(UNDETERMINED, FZero, sample_sources(1, 50), None),
      Input(UNDETERMINED, Dec(4, 3), sample_sources(1, 50), None),
      Input(NO, Dec(85, 2), sample_sources(1, 49), None) }

InitVotes ==
    /\ config \in { ConsensusConfig(3, Dec(67, 2), TRUE, 50),
                    ConsensusConfig(2, Dec(67, 2), FALSE, 50) }
    /\ results = <<>>
    /\ clock = 0
    /\ last = "init"
    /\ consensus = NoConsensus
    /\ before = NoConsensus
    /\ merged = <<>>
    /\ verification = <<>>
    /\ provable = <<>>
    /\ document = <<>>
    /\ canonical = <<>>
    /\ digest = <<>>
    /\ hash_seed = 0
    /\ builder = <<>>
    /\ calls = 0
    /\ pairwise_overlap = <<>>
    /\ heap = <<>>
    /\ attempt = 0
    /\ max_retries = 0

AddConfidence ==
    /\ last \in {"init", "add"}
    /\ Len(results) < MaxAgents
    /\ \E a \in ConfidenceInputs :
          results' = Append(results,
                            AgentResult("agent-" \o ToString(Len(results) + 1),
                                        a.outcome, a.confidence, a.sources, a.error))
    /\ last' = "add"
    /\ UNCHANGED <<heap, attempt, max_retries, builder, calls, pairwise_overlap, config, clock, consensus, before, merged,
                   verification, provable, document, canonical, digest, hash_seed>>

NextVotes == AddConfidence \/ Calculate

SpecVotes == InitVotes /\ [][NextVotes]_vars

(***************************************************************************)
(* oracle/core.py: MultiAgentOracle.resolve, from the retry loop on.       *)
(***************************************************************************)
\* OracleConfig.num_agents
NumAgents == 3

\* what an agent may return in a round: a valid YES, a valid NO, a YES on
\* three sources of its own, and the INVALID result that run_agent makes of a
\* timeout
RoundInputs ==
    { Input(YES, Dec(999, 3), sample_sources(1, 50), None),
      Input(NO, Dec(999, 3), sample_sources(1, 50), None),
      Input(YES, Dec(85, 2), sample_sources(51, 3), None),
      Input(INVALID, FZero, <<>>, <<"Timeout">>) }

\* _run_agents: one result per agent, in the order of self.agents
RoundResults ==
    { [i \in 1..NumAgents |->
          AgentResult("agent-" \o ToString(i), f[i].outcome, f[i].confidence, f[i].sources,
                      f[i].error)] : f \in [1..NumAgents -> RoundInputs] }

\* a round ends the loop as soon as one result is valid
AnyValidSuffices(cfg, rs) == Len(SelectSeq(rs, is_valid)) >= 1

\* valid_count >= min_valid
RoundSuffices(cfg, rs) == Len(SelectSeq(rs, is_valid)) >= cfg.min_agents

\* resolve has been called and is about to enter the retry loop
InitResolve ==
    /\ config \in ConfigInputs
    /\ max_retries \in 0..MaxRetries
    /\ attempt = 0
    /\ results = <<>>
    /\ clock = 0
    /\ last = "resolve"
    /\ consensus = NoConsensus
    /\ before = NoConsensus
    /\ merged = <<>>
    /\ verification = <<>>
    /\ provable = <<>>
    /\ document = <<>>
    /\ canonical = <<>>
    /\ digest = <<>>
    /\ hash_seed = 0
    /\ builder = <<>>
    /\ calls = 0
    /\ pairwise_overlap = <<>>
    /\ heap = <<>>

\* "for attempt in range(max_retries)" has another iteration to make
LoopContinues == last \in {"resolve", "round"} /\ attempt < max_retries

\* the loop was left by the break, or range(max_retries) is exhausted
LoopIsOver ==
    \/ last = "enough"
    \/ last \in {"resolve", "round"} /\ attempt >= max_retries

\* one iteration of "for attempt in range(max_retries)": the round, and the
\* break if it suffices
RunAgents ==
    /\ LoopContinues
    /\ \E agent_results \in RoundResults :
          /\ results' = agent_results
          /\ last' = IF RoundSuffices(config, agent_results) THEN "enough" ELSE "round"
    /\ attempt' = attempt + 1
    /\ UNCHANGED <<heap, max_retries, builder, calls, pairwise_overlap, config, clock,
                   consensus, before, merged, verification, provable, document, canonical,
                   digest, hash_seed>>

\* merged_sources of the OracleResult: the sources of the results that carry
\* the outcome of a reached consensus
AgreeingSources(rs, c) ==
    IF c.reached
    THEN _merge_sources(SelectSeq(rs, LAMBDA r : r.outcome = c.outcome))
    ELSE <<>>

\* after the loop: the consensus, the merged sources and the OracleResult
Conclude ==
    /\ LoopIsOver
    /\ consensus' = calculate(config, results)
    /\ merged' = AgreeingSources(results, consensus')
    /\ last' = "resolved"
    /\ UNCHANGED <<heap, attempt, max_retries, builder, calls, pairwise_overlap, config,
                   results, clock, before, verification, provable, document, canonical,
                   digest, hash_seed>>

NextResolve == RunAgents \/ Conclude

SpecResolve == InitResolve /\ [][NextResolve]_vars

\* what a step of resolve does to the loop counter and to the position in
\* resolve: a step of NextResolve is exactly a step of Proceeds, and one is
\* enabled when the other is
Proceeds ==
    \/ LoopContinues /\ attempt' = attempt + 1 /\ last' \in {"round", "enough"}
    \/ LoopIsOver /\ attempt' = attempt /\ last' = "resolved"

\* resolve is a coroutine that is run to its end: every await in it returns
\* (each agent under wait_for, each sleep after at most 30 seconds), so a
\* step that can be taken is taken
SpecResolveFair == SpecResolve /\ WF_<<last, attempt>>(Proceeds)

Next == AddResult \/ Calculate

Spec == Init /\ [][Next]_vars

\* the caller also reorders batches
NextReorder == AddResult \/ Calculate \/ Reorder

SpecReorder == Init /\ [][NextReorder]_vars

\* the caller of merge_sources
InitMerge == Init /\ config = ConsensusConfig(3, Dec(67, 2), TRUE, 50)

NextMerge == AddCitations \/ MergeSources

SpecMerge == InitMerge /\ [][NextMerge]_vars

\* the merged sources go back into _merge_sources as the sources of one agent
Remerge ==
    /\ last = "merge_sources"
    /\ \E agent_id \in {"agent-1", "merger"} :
          merged' = _merge_sources(<<AgentResult(agent_id, YES, Dec(85, 2), merged, None)>>)
    /\ before' = merged
    /\ last' = "remerge"
    /\ UNCHANGED <<heap, attempt, max_retries, builder, calls, pairwise_overlap, config, results, clock, consensus,
                   verification, provable, document, canonical, digest, hash_seed>>

NextRemerge == AddCitations \/ MergeSources \/ Remerge

SpecRemerge == InitMerge /\ [][NextRemerge]_vars

\* the caller asks for the source overlap of a batch, which may be empty
SourceOverlap ==
    /\ last \in {"init", "add"}
    /\ pairwise_overlap' = _calculate_source_overlap(results)
    /\ last' = "source_overlap"
    /\ UNCHANGED <<heap, attempt, max_retries, builder, calls, config, results, clock, consensus, before, merged,
                   verification, provable, document, canonical, digest, hash_seed>>

NextOverlap == AddCitations \/ SourceOverlap

SpecOverlap == InitMerge /\ [][NextOverlap]_vars

\* the caller of the strict engine
NextStrict == AddResult \/ CalculateStrict

SpecStrict == InitStrict /\ [][NextStrict]_vars

\* the caller of the strict engine, with agents around its confidence bounds
NextStrictChecks == AddQualifying \/ CalculateStrict

SpecStrictChecks == InitStrict /\ [][NextStrictChecks]_vars

\* the caller invokes the strict engine twice
NextStrictTwice == AddQualifying \/ CalculateStrict \/ RecalculateStrict

SpecStrictTwice == InitStrict /\ [][NextStrictTwice]_vars

\* what the agents of a batch may report when the question is who is heard by
\* the disagreement analysis: a qualified vote, a vote below
\* min_individual_confidence, an INVALID report and a vote short of sources
DisputedInputs ==
    { Input(YES, Dec(999, 3), sample_sources(1, 50), None),
      Input(YES, Dec(4, 3), sample_sources(26, 50), None),
      Input(INVALID, Dec(85, 2), sample_sources(1, 50), None),
      Input(NO, Dec(85, 2), sample_sources(1, 49), None) }

AddDisputed ==
    /\ last \in {"init", "add"}
    /\ Len(results) < MaxAgents
    /\ \E a \in DisputedInputs :
          results' = Append(results,
                            AgentResult("agent-" \o ToString(Len(results) + 1),
                                        a.outcome, a.confidence, a.sources, a.error))
    /\ last' = "add"
    /\ UNCHANGED <<heap, attempt, max_retries, builder, calls, pairwise_overlap, config, clock, consensus, before, merged,
                   verification, provable, document, canonical, digest, hash_seed>>

\* the caller of the strict engine, with agents it does not count
NextDisputed == AddDisputed \/ CalculateStrict

SpecDisputed == InitStrict /\ [][NextDisputed]_vars

(***************************************************************************)
(* The caller who looks at its batch after a call.                         *)
(***************************************************************************)
\* sources[0] of a result that an earlier merge has left its mark on
PreCited(sources) == [sources EXCEPT ![1].cited_by = <<"agent-9">>]

TrackedInputs ==
    { Input(YES, Dec(999, 3), PreCited(sample_sources(1, 50)), None),
      Input(YES, Dec(85, 2), sample_sources(26, 50), None),
      Input(NO, Dec(999, 3), sample_sources(1, 50), None) }

AddTracked ==
    /\ last \in {"init", "add"}
    /\ Len(results) < MaxAgents
    /\ \E a \in TrackedInputs :
          results' = Append(results,
                            AgentResult("agent-" \o ToString(Len(results) + 1),
                                        a.outcome, a.confidence, a.sources, a.error))
    /\ last' = "add"
    /\ UNCHANGED <<heap, attempt, max_retries, builder, calls, pairwise_overlap, config, clock,
                   consensus, before, merged, verification, provable, document, canonical,
                   digest, hash_seed>>

\* engine._merge_sources(results)
MergeSourcesInMemory ==
    /\ last = "add"
    /\ merged' = _merge_sources(results)
    /\ heap' = _merge_sources_in_memory(results, {results[i].agent_id : i \in 1..Len(results)})
    /\ last' = "merge_sources"
    /\ UNCHANGED <<attempt, max_retries, builder, calls, pairwise_overlap, config, results,
                   clock, consensus, before, verification, provable, document, canonical,
                   digest, hash_seed>>

\* engine.calculate(results)
CalculateInMemory ==
    /\ last = "add"
    /\ consensus' = calculate(config, results)
    /\ heap' = MemoryAfterCalculate(results, SelectSeq(results, is_valid), consensus')
    /\ last' = "calculate"
    /\ UNCHANGED <<attempt, max_retries, builder, calls, pairwise_overlap, config, results,
                   clock, before, merged, verification, provable, document, canonical,
                   digest, hash_seed>>

\* engine.calculate_strict(results): step 3 merges the sources of the
\* qualified results that won, whatever step 4 makes of the consensus
CalculateStrictInMemory ==
    /\ last = "add"
    /\ clock < MaxClock
    /\ StrictOutcome(calculate_strict(config, results, hash_seed, clock))
    /\ heap' = MemoryAfterCalculate(results, QualifiedResults(config, results),
                                    BaseConsensus(config, results,
                                                  QualifiedResults(config, results)))
    /\ clock' = clock + 1
    /\ UNCHANGED <<attempt, max_retries, builder, calls, pairwise_overlap, config, results,
                   before, merged, document, canonical, digest, hash_seed>>

NextTracked == AddTracked \/ MergeSourcesInMemory \/ CalculateInMemory \/ CalculateStrictInMemory

SpecTracked == InitStrict /\ [][NextTracked]_vars

\* the caller of the strict verifier
NextVerify == AddResult \/ VerifySources

SpecVerify == InitStrict /\ [][NextVerify]_vars

\* the caller of the strict verifier, with agents that may cite a URL twice
NextCrossVerify == AddCitations \/ VerifySources

SpecCrossVerify == InitStrict /\ [][NextCrossVerify]_vars

\* the caller of the canonical codec
NextCodec == SubmitDocument \/ Canonicalize \/ ReorderKeys

SpecCodec == InitMerge /\ [][NextCodec]_vars

(***************************************************************************)
(* Vote Aggregator: what the claims speak of, stated over the batch.       *)
(***************************************************************************)
\* a result the aggregator counts: enough sources, no error, a real vote
CountedAsValid(r) ==
    Len(r.sources) >= MinValidSources /\ r.error = None /\ r.outcome # INVALID

ValidVotes == SelectSeq(results, CountedAsValid)

VotesFor(o) == SelectSeq(ValidVotes, LAMBDA r : r.outcome = o)

\* summed vote weight of each outcome
VoteWeights ==
    [o \in {YES, NO, UNDETERMINED} |->
        FSum([i \in 1..Len(VotesFor(o)) |-> _calculate_vote_weight(config, VotesFor(o)[i])])]

Tally == [YES |-> VoteWeights[YES], NO |-> VoteWeights[NO],
          UNDETERMINED |-> VoteWeights[UNDETERMINED]]

OutcomeRank(o) == CHOOSE k \in 1..3 : VoteOutcomes[k] = o

\* highest summed weight; among equals, the first of YES, NO, UNDETERMINED
WinnerOf(w) ==
    CHOOSE o \in {YES, NO, UNDETERMINED} :
        \A p \in {YES, NO, UNDETERMINED} :
            \/ FLess(w[p], w[o])
            \/ (w[p] = w[o] /\ OutcomeRank(o) <= OutcomeRank(p))

CountShare(o) == FDiv(FromInt(Len(VotesFor(o))), FromInt(Len(ValidVotes)))

WeightShare(w, o) ==
    LET total == FSum(<<w[YES], w[NO], w[UNDETERMINED]>>)
    IN  IF total = FZero THEN FZero ELSE FDiv(w[o], total)

EffectiveRatioOf(w) ==
    IF config.use_weighted_voting THEN WeightShare(w, WinnerOf(w))
    ELSE CountShare(WinnerOf(w))

MeanConfidence(rs) == FDiv(FSum([i \in 1..Len(rs) |-> rs[i].confidence]), FromInt(Len(rs)))

Calculated == last \in {"calculate", "recalculate"}

EnoughValid == Len(ValidVotes) >= config.min_agents

\* C1: with at least min_agents valid agents, calculate reaches consensus exactly
\* when the winning outcome's share (of summed weight under weighted voting, of
\* the valid vote count otherwise) is at least the threshold; a reached
\* consensus carries the winning outcome, the mean confidence of its voters and
\* requires_human_review = false.
C1_ReachedIffThreshold ==
    (Calculated /\ EnoughValid) =>
        LET w == Tally
            winner == WinnerOf(w)
        IN  /\ consensus.reached <=> FGeq(EffectiveRatioOf(w), config.threshold)
            /\ consensus.reached =>
                  /\ consensus.outcome = winner
                  /\ consensus.confidence = MeanConfidence(VotesFor(winner))
                  /\ consensus.requires_human_review = FALSE

\* consensus reached exactly at the threshold, with a dissenting vote
C1_Witness ==
    /\ Calculated /\ EnoughValid
    /\ consensus.reached
    /\ EffectiveRatioOf(Tally) = config.threshold
    /\ Len(VotesFor(consensus.outcome)) < Len(ValidVotes)

\* C2: fewer than min_agents results, or fewer than min_agents valid ones: the
\* call returns reached = false, outcome INVALID, requires_human_review = true
\* and a reason that names min_agents.
C2_InsufficientIsInvalid ==
    (Calculated /\ (Len(results) < config.min_agents \/ ~EnoughValid)) =>
        /\ consensus.reached = FALSE
        /\ consensus.outcome = INVALID
        /\ consensus.requires_human_review = TRUE
        /\ \E i \in 1..Len(consensus.reason) :
              consensus.reason[i] = ToString(config.min_agents)

\* enough results were supplied, but too few of them are valid
C2_Witness ==
    /\ Calculated
    /\ Len(results) >= config.min_agents
    /\ ~EnoughValid
    /\ \E i \in 1..Len(results) : results[i].error # None
    /\ consensus.outcome = INVALID

\* C3: enough valid agents but the effective ratio below the threshold: the
\* call returns reached = false, outcome UNDETERMINED whichever outcome led,
\* requires_human_review = true and a reason.
C3_NoSupermajorityIsUndetermined ==
    (Calculated /\ EnoughValid /\ FLess(EffectiveRatioOf(Tally), config.threshold)) =>
        /\ consensus.reached = FALSE
        /\ consensus.outcome = UNDETERMINED
        /\ consensus.requires_human_review = TRUE
        /\ consensus.reason # None

\* YES leads with two votes of three and still falls short of the threshold
C3_Witness ==
    /\ Calculated /\ EnoughValid
    /\ FLess(EffectiveRatioOf(Tally), config.threshold)
    /\ WinnerOf(Tally) = YES
    /\ Len(VotesFor(YES)) = 2 /\ Len(VotesFor(NO)) = 1
    /\ consensus.outcome = UNDETERMINED

\* C4: the winner is the outcome of highest summed weight, and among outcomes
\* of equal highest weight the first of YES, NO, UNDETERMINED, whatever the
\* order of the batch: its vote share is the agreement_ratio returned and it
\* is the outcome of a reached consensus.
C4_WinnerAndTieBreak ==
    (Calculated /\ EnoughValid) =>
        LET winner == WinnerOf(Tally)
        IN  /\ consensus.agreement_ratio = CountShare(winner)
            /\ consensus.reached => consensus.outcome = winner

\* NO and YES tie on weight, NO comes first in the batch, YES wins
C4_Witness ==
    /\ Calculated /\ EnoughValid
    /\ Tally[YES] = Tally[NO] /\ FLess(Tally[UNDETERMINED], Tally[YES])
    /\ ValidVotes[1].outcome = NO
    /\ consensus.reached /\ consensus.outcome = YES

\* C5: calculate is order-insensitive: the result for a reordered batch equals
\* the result for the batch as it was, field by field.
C5_OrderInsensitive ==
    last = "recalculate" =>
        /\ consensus.reached = before.reached
        /\ consensus.outcome = before.outcome
        /\ consensus.confidence = before.confidence
        /\ consensus.agreement_ratio = before.agreement_ratio
        /\ consensus.weighted_ratio = before.weighted_ratio
        /\ consensus.total_sources = before.total_sources
        /\ consensus.unique_sources = before.unique_sources
        /\ consensus.source_overlap = before.source_overlap
        /\ consensus.agent_count = before.agent_count
        /\ consensus.requires_human_review = before.requires_human_review

\* validity as measured against the configured minimum number of sources
ConfiguredValid(r) ==
    Len(r.sources) >= config.min_sources_per_agent /\ r.error = None /\ r.outcome # INVALID

\* C6: a result counts as a valid vote exactly when it has at least the
\* configured min_sources_per_agent sources, no error and an outcome other
\* than INVALID: with the minimum configured below 50, an error-free agent
\* with that many sources and a real outcome is counted.
C6_ValidityUsesConfiguredMinimum ==
    (Calculated /\ Len(results) >= config.min_agents) =>
        LET n == Len(SelectSeq(results, ConfiguredValid))
        IN  IF n >= config.min_agents
            THEN consensus.outcome # INVALID /\ consensus.agent_count = n
            ELSE consensus.outcome = INVALID

(***************************************************************************)
(* Source Merger.                                                          *)
(***************************************************************************)
CitedUrls == UNION {UrlSet(results[i]) : i \in 1..Len(results)}

CitingAgents(url) == {results[i].agent_id : i \in {k \in 1..Len(results) : url \in UrlSet(results[k])}}

\* C9: merge_sources returns each URL that occurs in any agent's sources exactly
\* once, and each entry's cited_by has no duplicates and holds exactly the ids
\* of the agents whose sources contain the URL.
C9_MergedOncePerUrl ==
    last = "merge_sources" =>
        /\ {merged[j].url : j \in 1..Len(merged)} = CitedUrls
        /\ \A j, h \in 1..Len(merged) : merged[j].url = merged[h].url => j = h
        /\ \A j \in 1..Len(merged) :
              /\ \A a, b \in 1..Len(merged[j].cited_by) :
                    merged[j].cited_by[a] = merged[j].cited_by[b] => a = b
              /\ {merged[j].cited_by[a] : a \in 1..Len(merged[j].cited_by)}
                    = CitingAgents(merged[j].url)

\* an agent cites one URL twice, another agent cites it too, and a third URL-free
\* of sharing is merged beside it
C9_Witness ==
    /\ last = "merge_sources"
    /\ Len(merged) = 2
    /\ \E i \in 1..Len(results) :
          /\ Len(results[i].sources) = 2
          /\ results[i].sources[1].url = results[i].sources[2].url
          /\ \E j \in 1..Len(merged) :
                /\ merged[j].url = results[i].sources[1].url
                /\ Len(merged[j].cited_by) = 2

(***************************************************************************)
(* Canonical Codec.                                                        *)
(***************************************************************************)
\* the keys of a dict, in insertion order
KeysOf(d) == [i \in 1..Len(d[2]) |-> d[2][i][1]]

\* C7: to_canonical_json followed by calculate_sha256 is insensitive to key
\* order: a value rebuilt with the keys of any of its (nested) dicts inserted
\* in another order has the same canonical string and the same hash.
C7_KeyOrderInsensitive ==
    last = "recanonicalize" => canonical = before[1] /\ digest = before[2]

\* a value whose top-level keys, whose nested dict's keys and whose listed
\* dict's keys are all out of sorted order has been canonicalized again
C7_Witness ==
    /\ last = "recanonicalize"
    /\ KeysOf(document) = <<"question", "merged_sources", "market_id", "consensus">>
    /\ KeysOf(document[2][4][2]) = <<"reached", "outcome", "confidence">>
    /\ KeysOf(document[2][2][2][2][1]) = <<"url", "category">>
    /\ canonical = "{\"consensus\":{\"confidence\":0.85,\"outcome\":\"YES\",\"reached\":true},"
                   \o "\"market_id\":7,"
                   \o "\"merged_sources\":[{\"category\":\"news\",\"url\":\"https://source/1\"}],"
                   \o "\"question\":\"Will it happen?\"}"

\* the value holds, at any depth, a value of the given kind
RECURSIVE Holds(_, _)
Holds(v, kind) ==
    \/ v[1] = kind
    \/ v[1] = "list" /\ \E i \in 1..Len(v[2]) : Holds(v[2][i], kind)
    \/ v[1] = "dict" /\ \E i \in 1..Len(v[2]) : Holds(v[2][i][2], kind)

\* C16: the codec raises instead of returning a string whenever the value
\* holds a value of a type it cannot render or a non-finite number (NaN,
\* Infinity, -Infinity).
C16_CodecRaisesOnUnencodable ==
    (last \in {"canonicalize", "recanonicalize"}) =>
        ~Holds(document, "object") /\ ~Holds(document, "nonfinite")

(***************************************************************************)
(* Research data builder.                                                  *)
(***************************************************************************)
\* C17: build() does not fail for missing timestamps and is repeatable: after
\* any sequence of start_research, add_agent_result, set_consensus,
\* set_merged_sources and set_oracle_config calls, with or without
\* complete_research, build() returns a record with both timestamps, and two
\* consecutive build() calls return records with the same canonical JSON and
\* the same hash.
C17_BuildRepeatable ==
    /\ last \in {"build", "rebuild"} =>
          /\ builder.research_started_at # None
          /\ builder.research_completed_at # None
          /\ document[2][7] = <<"research_started_at", JStr(builder.research_started_at[1])>>
          /\ document[2][8] = <<"research_completed_at", JStr(builder.research_completed_at[1])>>
    /\ last = "rebuild" => canonical = before[1] /\ digest = before[2]

\* built twice in a row with neither start_research nor complete_research
\* called, after an agent and a consensus were set
C17_Witness ==
    /\ last = "rebuild"
    /\ calls = 2
    /\ Len(builder._agent_results) = 1
    /\ builder._consensus # None
    /\ clock = 2
    /\ canonical = before[1]

\* C29: in every record returned by build(), total_agents is the number of
\* add_agent_result calls made so far and valid_agents the number of the added
\* results that are valid, also when none of them is.
C29_RecordCountsAgents ==
    last \in {"build", "rebuild"} =>
        /\ document[2][13] = <<"total_agents", JInt(Len(builder._agent_results))>>
        /\ document[2][14] =
              <<"valid_agents", JInt(Len(SelectSeq(builder._agent_results, is_valid)))>>

(***************************************************************************)
(* The aggregator's scenarios.                                             *)
(***************************************************************************)
Unanimous(o) == \A i \in 1..Len(ValidVotes) : ValidVotes[i].outcome = o

\* C18: with at least min_agents valid agents, all of which vote the same
\* outcome o of YES, NO, UNDETERMINED, calculate returns reached = true,
\* outcome = o, agreement_ratio = 1.0 and agent_count = the number of valid
\* agents, whatever the agents' confidences.
C18_UnanimousReaches ==
    (Calculated /\ EnoughValid) =>
        \A o \in {YES, NO, UNDETERMINED} :
            Unanimous(o) =>
                /\ consensus.reached
                /\ consensus.outcome = o
                /\ consensus.agreement_ratio = FOne
                /\ consensus.agent_count = Len(ValidVotes)

OneVoteEach == \A o \in {YES, NO, UNDETERMINED} : Len(VotesFor(o)) = 1

\* C19: with min_agents = 3 and threshold = 0.67, three valid agents voting
\* YES, NO and UNDETERMINED, one each, always get reached = false, outcome
\* UNDETERMINED and requires_human_review = true, whatever their confidences
\* and sources.
C19_SplitVoteUnreached ==
    (/\ Calculated
     /\ config.min_agents = 3 /\ config.threshold = Dec(67, 2)
     /\ Len(results) = 3 /\ Len(ValidVotes) = 3
     /\ OneVoteEach) =>
        /\ ~consensus.reached
        /\ consensus.outcome = UNDETERMINED
        /\ consensus.requires_human_review

\* the URLs cited by the i-th agent of the batch
UrlsCitedBy(i) == {results[i].sources[k].url : k \in 1..Len(results[i].sources)}

\* C20: the source overlap is exactly 1.0 for two agents with the same
\* non-empty set of source URLs, exactly 0.0 for two agents with disjoint
\* non-empty sets, 1.0 for fewer than two agents, and within [0, 1] always.
C20_OverlapBounds ==
    last = "source_overlap" =>
        /\ Len(results) < 2 => pairwise_overlap = FOne
        /\ (Len(results) = 2 /\ UrlsCitedBy(1) # {} /\ UrlsCitedBy(2) # {}) =>
              /\ UrlsCitedBy(1) = UrlsCitedBy(2) => pairwise_overlap = FOne
              /\ UrlsCitedBy(1) \cap UrlsCitedBy(2) = {} => pairwise_overlap = FZero
        /\ FLeq(FZero, pairwise_overlap)
        /\ FLeq(pairwise_overlap, FOne)

\* two agents citing the same URL, one of them twice over: the same set of
\* URLs, and an overlap of exactly 1.0
C20_Witness ==
    /\ last = "source_overlap"
    /\ Len(results) = 2
    /\ Len(results[1].sources) = 2 /\ Len(results[2].sources) = 1
    /\ UrlsCitedBy(1) = UrlsCitedBy(2)
    /\ pairwise_overlap = FOne

\* the agents an entry names in cited_by
Citers(entry) == {entry.cited_by[a] : a \in 1..Len(entry.cited_by)}

\* C21: merging the output of merge_sources again, as the sources of a single
\* agent, gives the same set of URLs, and each entry's cited_by after the
\* second merge holds every agent it held after the first.
C21_RemergeKeepsUrlsAndCiters ==
    last = "remerge" =>
        /\ {merged[j].url : j \in 1..Len(merged)} = {before[j].url : j \in 1..Len(before)}
        /\ \A j \in 1..Len(merged) : \A h \in 1..Len(before) :
              merged[j].url = before[h].url => Citers(before[h]) \subseteq Citers(merged[j])

\* the pairs of agents of the batch of which at least one cites a URL
CitingPairs ==
    SelectSeq(AgentPairs(Len(results)),
              LAMBDA p : UrlsCitedBy(p[1]) \cup UrlsCitedBy(p[2]) # {})

\* |A & B| / |A | B| of the URL sets of a pair of agents
Jaccard(p) ==
    FDiv(FromInt(Cardinality(UrlsCitedBy(p[1]) \cap UrlsCitedBy(p[2]))),
         FromInt(Cardinality(UrlsCitedBy(p[1]) \cup UrlsCitedBy(p[2]))))

\* C22: for two or more agents the source overlap is the mean of the Jaccard
\* similarity over all unordered pairs of agents but those in which both URL
\* sets are empty; a pair with exactly one empty set counts as 0 in the mean.
C22_OverlapIsMeanJaccard ==
    (last = "source_overlap" /\ Len(results) >= 2 /\ Len(CitingPairs) > 0) =>
        pairwise_overlap =
            FDiv(FSum([k \in 1..Len(CitingPairs) |-> Jaccard(CitingPairs[k])]),
                 FromInt(Len(CitingPairs)))

\* C23: cross_verified_facts is the number of distinct URLs cited by at least
\* two different agents; a URL that one agent cites several times and no other
\* agent cites does not count.
C23_CrossVerifiedCountsAgents ==
    last = "verify_sources" =>
        verification.cross_verified_facts =
            Cardinality({url \in CitedUrls : Cardinality(CitingAgents(url)) >= 2})

\* the sources of the batch, agent by agent: the objects 1..N of the memory
BatchSources == CollectSources(results, 1)

\* the lists that the sources of the batch refer to
BatchLists == {heap.fields[k] : k \in 1..Len(BatchSources)}

\* C25: calculate, calculate_strict and merge_sources leave the batch as it
\* was: after the call every source of every result has the cited_by it had
\* before, and the merged entries are other objects, whose cited_by lists no
\* source of the batch refers to.
C25_InputLeftUnchanged ==
    (last \in {"merge_sources", "calculate", "calculate_strict"}) =>
        /\ \A k \in 1..Len(BatchSources) :
              heap.lists[heap.fields[k]] = BatchSources[k][1].cited_by
        /\ \A j \in 1..Len(heap.merged) :
              /\ heap.merged[j].obj > Len(BatchSources)
              /\ heap.fields[heap.merged[j].obj] \notin BatchLists

\* calculate_strict has merged the sources of two agreeing agents that share
\* URLs, one of them cited before: the entry of the shared URL names both
\* agents and the earlier citation is still with the agent's source
C25_Witness ==
    /\ last = "calculate_strict"
    /\ consensus.reached
    /\ Len(heap.merged) > 50
    /\ BatchSources[1][1].cited_by = <<"agent-9">>
    /\ heap.lists[heap.fields[1]] = <<"agent-9">>
    /\ \E j \in 1..Len(heap.merged) :
          /\ heap.merged[j].url = BatchSources[1][1].url
          /\ Len(heap.lists[heap.fields[heap.merged[j].obj]]) = 2

\* C26: without weighted voting and with at least min_agents valid agents, an
\* outcome whose share of the valid votes is at least the threshold is
\* returned as the consensus, reached = true, whatever the confidences and
\* source qualities of the agents (of two outcomes with such a share, either).
C26_UnweightedShareDecides ==
    (Calculated /\ EnoughValid /\ ~config.use_weighted_voting) =>
        ((\E o \in {YES, NO, UNDETERMINED} : FGeq(CountShare(o), config.threshold)) =>
            /\ consensus.reached
            /\ FGeq(CountShare(consensus.outcome), config.threshold))

\* C27: a consensus that calculate returns as reached names an outcome that at
\* least as many valid agents voted as any other outcome.
C27_ConsensusIsPlurality ==
    (Calculated /\ consensus.reached) =>
        \A o \in {YES, NO, UNDETERMINED} :
            Len(VotesFor(o)) <= Len(VotesFor(consensus.outcome))

(***************************************************************************)
(* MultiAgentOracle.resolve.                                               *)
(***************************************************************************)
\* C28: in the OracleResult of resolve, when the consensus is reached the
\* number of merged_sources equals consensus.unique_sources.
C28_MergedMatchesUniqueSources ==
    (last = "resolved" /\ consensus.reached) => Len(merged) = consensus.unique_sources

\* a round's valid results reach min_agents
LastRoundSuffices == Len(ValidVotes) >= config.min_agents

\* a round is started only inside the bound and after no sufficient round
RoundStartsRightly ==
    attempt' # attempt =>
        /\ attempt' = attempt + 1
        /\ attempt < max_retries
        /\ last # "resolved"
        /\ ~LastRoundSuffices

\* resolve has ended after the first sufficient round or after max_retries
\* rounds, with the consensus of the results of the last round
EndsRightly ==
    last = "resolved" =>
        /\ attempt <= max_retries
        /\ attempt < max_retries => LastRoundSuffices
        /\ Len(results) = (IF attempt = 0 THEN 0 ELSE NumAgents)
        /\ consensus = calculate(config, results)

C8_DataHashIsCanonical ==
    last = "calculate_strict" =>
        provable.data_hash = calculate_sha256(to_canonical_json(ProvableDump(provable)))

StrictReturned == last = "calculate_strict"

\* an agent the strict engine lets vote
CountsAsQualified(r) ==
    CountedAsValid(r) /\ FGeq(r.confidence, config.min_individual_confidence)

QualifiedVotes == SelectSeq(results, CountsAsQualified)

\* what the aggregator makes of the qualified agents
AggregatorResult == calculate(config, QualifiedVotes)

EnoughQualified == Len(QualifiedVotes) >= config.min_agents

ConfidentEnough(c) == FGeq(c.confidence, config.min_consensus_confidence)

\* C11: when the aggregator reaches consensus with confidence at least
\* min_consensus_confidence, calculate_strict keeps reached = true and the
\* outcome, and requires_human_review is true when source verification failed
\* and false when it passed.
C11_FailedVerificationFlagsReview ==
    (StrictReturned /\ EnoughQualified) =>
        LET base == AggregatorResult
        IN  (base.reached /\ ConfidentEnough(base)) =>
                /\ consensus.reached
                /\ consensus.outcome = base.outcome
                /\ consensus.requires_human_review = ~verification.passed

\* a reached consensus flagged for review because verification failed
C11_Witness ==
    /\ StrictReturned /\ EnoughQualified
    /\ ~verification.passed
    /\ consensus.reached /\ consensus.requires_human_review
    /\ LET base == AggregatorResult IN base.reached /\ ConfidentEnough(base)

\* C12: calculate_strict counts only the agents that are valid and have
\* confidence at least min_individual_confidence; it never returns
\* reached = true with confidence below min_consensus_confidence: a consensus
\* the aggregator reaches below that bound comes back with reached = false,
\* requires_human_review = true and a reason.
C12_QualifiedAndConfident ==
    StrictReturned =>
        /\ consensus.reached => ConfidentEnough(consensus)
        /\ ~EnoughQualified => ~consensus.reached
        /\ EnoughQualified =>
              LET base == AggregatorResult
              IN  /\ consensus.agent_count = Len(QualifiedVotes)
                  /\ consensus.agreement_ratio = base.agreement_ratio
                  /\ consensus.weighted_ratio = base.weighted_ratio
                  /\ (base.reached /\ ~ConfidentEnough(base)) =>
                        /\ ~consensus.reached
                        /\ consensus.requires_human_review
                        /\ consensus.reason # None

\* a valid agent was left out for its confidence, and the consensus of the
\* others was downgraded for theirs
C12_Witness ==
    /\ StrictReturned /\ EnoughQualified
    /\ ~consensus.reached
    /\ \E i \in 1..Len(results) :
          CountedAsValid(results[i]) /\ ~CountsAsQualified(results[i])
    /\ LET base == AggregatorResult IN base.reached /\ ~ConfidentEnough(base)

\* C13: for every results list, the empty list and lists of fewer than
\* min_agents agents included, calculate_strict does not raise: it returns a
\* ConsensusResult and a ProvableConsensusData bundle.
C13_StrictNeverRaises == last # "calculate_strict raised"

\* fewer than min_agents agents were supplied, or fewer qualified
InsufficientParticipation ==
    Len(results) < config.min_agents \/ Len(QualifiedVotes) < config.min_agents

\* C14: a ConsensusResult that calculate_strict returns with reached = false
\* has outcome INVALID when participation was insufficient and outcome
\* UNDETERMINED in every other case, a consensus downgraded for its
\* confidence included; it never carries YES or NO.
C14_UnreachedIsInvalidOrUndetermined ==
    (StrictReturned /\ ~consensus.reached) =>
        consensus.outcome = IF InsufficientParticipation THEN INVALID ELSE UNDETERMINED

\* C15: calculate_strict is idempotent: two invocations on the same results
\* and config, made at different times, return equal ConsensusResults and
\* equal ProvableConsensusData bundles, data_hash included.
C15_StrictIdempotent ==
    last = "recalculate_strict" =>
        /\ consensus = before[1]
        /\ provable = before[2]
        /\ provable.data_hash = before[2].data_hash

\* C10: the strict verifier returns passed = true if and only if
\* tier1_sources >= min_tier1_sources and tier2_sources >= min_tier2_sources,
\* which is exactly when issues is empty; diversity and cross-verification
\* shortfalls add warnings only.
C10_PassedIffTiers ==
    last = "verify_sources" =>
        /\ verification.passed <=> (/\ verification.tier1_sources >= config.min_tier1_sources
                                    /\ verification.tier2_sources >= config.min_tier2_sources)
        /\ verification.passed <=> (verification.issues = <<>>)

\* the verifier passed a batch while warning of too little cross-verification
C10_Witness ==
    /\ last = "verify_sources"
    /\ verification.passed
    /\ Len(verification.warnings) = 1
    /\ verification.cross_verified_facts < config.min_cross_verified_facts

\* the outcome values among the results as supplied, INVALID included
SuppliedOutcomes == {results[i].outcome : i \in 1..Len(results)}

\* C24: the bundle returned by calculate_strict carries a disagreement
\* analysis exactly when more than one distinct outcome value occurs among the
\* results as supplied, agents excluded as invalid or unqualified included;
\* otherwise its disagreement field is None.
C24_DisagreementIffOutcomesDiffer ==
    StrictReturned =>
        /\ provable.disagreement # None <=> Cardinality(SuppliedOutcomes) > 1
        /\ provable.disagreement # None => provable.disagreement[1].has_disagreement

\* all the agents that qualify vote YES, and an agent that is not counted
\* reports another outcome: the bundle carries the analysis
C24_Witness ==
    /\ StrictReturned
    /\ EnoughQualified
    /\ \A i \in 1..Len(QualifiedVotes) : QualifiedVotes[i].outcome = YES
    /\ Cardinality(SuppliedOutcomes) = 2
    /\ consensus.reached
    /\ provable.disagreement # None

====
